---------------------------- MODULE Spec2Model ----------------------------
(***************************************************************************)
(* The chunked OCR pipeline of gemini-helper.ts: splitImage, withRetry,    *)
(* runWithConcurrencyLimit, ocrSingleImage, preCleanOcr, postProcessOcr    *)
(* and performOcr; and, of the server, captureFullPageManually and the     *)
(* background task of POST /api/capture with its job-status record.        *)
(*                                                                         *)
(* A string is a sequence of characters.  A character outside ASCII is     *)
(* written by its code point ("U4F11"), and a fixed phrase that no rule    *)
(* looks inside is one element of the sequence.  An error is its message,  *)
(* a sequence of words.                                                    *)
(*                                                                         *)
(* One step of the model is one turn of the event loop: the arrival of a   *)
(* backend response, a backend error or a timer, followed by every         *)
(* continuation that runs before the next event is taken.                  *)
(***************************************************************************)
EXTENDS Integers, Sequences, FiniteSets, TLC

VARIABLES
    apiKey,         \* process.env.GEMINI_API_KEY is set
    totalChunks,    \* chunks.length / tasks.length
    limit,          \* runWithConcurrencyLimit's limit
    maxRetries,     \* withRetry's maxRetries
    delayMs,        \* withRetry's delayMs
    phase,          \* where performOcr is: "idle", "extracting", "cleaning", "done"
    unit,           \* per chunk index: the ocrSingleImage call and its withRetry loop
    currentIndex,   \* runWithConcurrencyLimit's shared counter
    results,        \* runWithConcurrencyLimit's results array (<<>> is an empty slot)
    workers,        \* the runNext() calls: what each awaits, or how it ended
    pool,           \* the promise of Promise.all(workers)
    combinedText,   \* performOcr's combinedText
    preCleanedText, \* performOcr's preCleanedText
    reflow,         \* postProcessOcr's withRetry loop
    outcome,        \* the promise performOcr returned
    progressLog,    \* the calls of options.onProgress, in order
    statusLog,      \* the calls of options.onStatusChange, in order
    settleLog,      \* the units whose task settled, in order of time
    rt,             \* a withRetry call on its own (SpecRetry)
    geom,           \* what page.evaluate reports, and deviceScaleFactor
    capturePc,      \* where captureFullPageManually is
    segments,       \* captureFullPageManually's segments: the scrollY of each
    compositeInputs, \* captureFullPageManually's compositeInputs
    canvas,         \* the image sharp creates and composites into
    job,            \* the background task of POST /api/capture
    captureStatus,  \* captureStatus.get(jobId): <<>> when there is no entry
    retention,      \* the setTimeout that deletes the entry
    image,          \* splitImage's imageBuffer
    maxHeight,      \* splitImage's maxHeight
    chunks,         \* what splitImage returned, and what it returned for a chunk
    cleanArg,       \* the text of a preCleanOcr call on its own
    cleaned,        \* what that call returned: <<>> before it returns
    modelText,      \* result.response.text() of an ocrSingleImage call on its own
    chunkText       \* what that call returned: <<>> before it returns

ocrVars == <<apiKey, totalChunks, limit, maxRetries, delayMs, phase, unit,
             currentIndex, results, workers, pool, combinedText, preCleanedText,
             reflow, outcome, progressLog, statusLog, settleLog, rt>>

capVars == <<geom, capturePc, segments, compositeInputs, canvas>>

srvVars == <<job, captureStatus, retention>>

splitVars == <<image, maxHeight, chunks>>

cleanVars == <<cleanArg, cleaned>>

textVars == <<modelText, chunkText>>

vars == <<ocrVars, capVars, srvVars, splitVars, cleanVars, textVars>>

(***************************************************************************)
(* Bounds of the model.                                                    *)
(***************************************************************************)
MaxChunks == 4

MaxUnits == 4

MaxRetriesArg == 4

\* The greatest document height, viewport height and width, in CSS pixels,
\* and the greatest device scale factor of a capture on its own.
MaxTotalHeight == 7

MaxViewportHeight == 3

MaxViewportWidth == 2

MaxScale == 3

\* The greatest image height and width, in pixels, and the greatest maxHeight
\* of a splitImage call on its own.
MaxImageHeight == 9

MaxImageWidth == 2

MaxLimit == 4

\* The greatest length, in characters, of the text of a preCleanOcr call on
\* its own.
MaxTextLen == 5

\* The greatest length, in elements, of the backend's text in an
\* ocrSingleImage call on its own.
MaxResponseLen == 3

(***************************************************************************)
(* Program constants.                                                      *)
(***************************************************************************)
OCR_CONCURRENCY_LIMIT == 3

DefaultMaxRetries == 3

DefaultDelayMs == 2000

\* The maxHeight performOcr passes to splitImage.
MaxChunkHeight == 4000

Min(a, b) == IF a < b THEN a ELSE b

(***************************************************************************)
(* Strings.                                                                *)
(***************************************************************************)
\* String.prototype.includes for a one-element needle.
Includes(s, c) == \E p \in 1..Len(s) : s[p] = c

\* s.startsWith(t, p) with p counted from 1.
StartsWithAt(s, p, t) ==
    /\ p + Len(t) - 1 <= Len(s)
    /\ \A q \in 1..Len(t) : s[p + q - 1] = t[q]

WhiteSpace == {" ", "\n", "\t", "\r", "U3000"}

\* String.prototype.trim
RECURSIVE TrimStart(_)
TrimStart(s) ==
    IF s # <<>> /\ Head(s) \in WhiteSpace THEN TrimStart(Tail(s)) ELSE s

RECURSIVE TrimEnd(_)
TrimEnd(s) ==
    IF s # <<>> /\ s[Len(s)] \in WhiteSpace
    THEN TrimEnd(SubSeq(s, 1, Len(s) - 1))
    ELSE s

Trim(s) == TrimEnd(TrimStart(s))

\* Array.prototype.join: the elements of parts with sep between them.
RECURSIVE JoinWith(_, _)
JoinWith(parts, sep) ==
    IF parts = <<>> THEN <<>>
    ELSE IF Len(parts) = 1 THEN parts[1]
    ELSE parts[1] \o sep \o JoinWith(Tail(parts), sep)

\* String.prototype.split('\n')
RECURSIVE SplitLines(_)
SplitLines(s) ==
    IF \A p \in 1..Len(s) : s[p] # "\n" THEN <<s>>
    ELSE LET p == CHOOSE q \in 1..Len(s) :
                      s[q] = "\n" /\ \A r \in 1..(q - 1) : s[r] # "\n"
         IN  <<SubSeq(s, 1, p - 1)>> \o SplitLines(SubSeq(s, p + 1, Len(s)))

\* s.replace(/from/g, to) for a literal pattern: leftmost matches, not overlapping.
RECURSIVE ReplaceAll(_, _, _)
ReplaceAll(s, from, to) ==
    IF s = <<>> THEN <<>>
    ELSE IF StartsWithAt(s, 1, from)
         THEN to \o ReplaceAll(SubSeq(s, Len(from) + 1, Len(s)), from, to)
         ELSE <<Head(s)>> \o ReplaceAll(Tail(s), from, to)


\* s.replace(/a|b/g, to) for literal alternatives, tried in order at each place.
RECURSIVE ReplaceAllAlt(_, _, _)
ReplaceAllAlt(s, alts, to) ==
    IF s = <<>> THEN <<>>
    ELSE IF \E k \in 1..Len(alts) : StartsWithAt(s, 1, alts[k])
         THEN LET k == CHOOSE j \in 1..Len(alts) :
                           /\ StartsWithAt(s, 1, alts[j])
                           /\ \A h \in 1..(j - 1) : ~StartsWithAt(s, 1, alts[h])
              IN  to \o ReplaceAllAlt(SubSeq(s, Len(alts[k]) + 1, Len(s)), alts, to)
         ELSE <<Head(s)>> \o ReplaceAllAlt(Tail(s), alts, to)

(***************************************************************************)
(* preCleanOcr.  The characters its rules name:                            *)
(*   U4F11 U820C -> U4F53 U91CD      (a misread of "body weight")          *)
(*   U5167 U81DF | U5185 U81DF -> U5185 U81D3                              *)
(*   U33A1 -> U33A0                                                        *)
(***************************************************************************)
Digits == <<"0", "1", "2", "3", "4", "5", "6", "7", "8", "9">>

IsDigit(c) == \E d \in 1..Len(Digits) : Digits[d] = c

\* The alternatives of (kg|U5186|%|cm|U33A0), in the pattern's order.
UnitWords == << <<"k", "g">>, <<"U5186">>, <<"%">>, <<"c", "m">>, <<"U33A0">> >>

\* t matches ^\d+\.?\d*$
NumberLike(t) ==
    /\ t # <<>>
    /\ IsDigit(t[1])
    /\ \A p \in 1..Len(t) : IsDigit(t[p]) \/ t[p] = "."
    /\ Cardinality({p \in 1..Len(t) : t[p] = "."}) <= 1

\* /(\d+\.?\d*)\n(kg|...)/ matches s from its first character: the place of the
\* "\n" of the match, or 0.
FragmentMatch(s) ==
    IF \E e \in 2..Len(s) :
           /\ s[e] = "\n"
           /\ NumberLike(SubSeq(s, 1, e - 1))
           /\ \E k \in 1..Len(UnitWords) : StartsWithAt(s, e + 1, UnitWords[k])
    THEN CHOOSE e \in 2..Len(s) :
           /\ s[e] = "\n"
           /\ NumberLike(SubSeq(s, 1, e - 1))
           /\ \E k \in 1..Len(UnitWords) : StartsWithAt(s, e + 1, UnitWords[k])
    ELSE 0

\* JoinFragments, were the replacement '$1': the unit is dropped with the break.
RECURSIVE JoinFragmentsNumberOnly(_)
JoinFragmentsNumberOnly(s) ==
    IF s = <<>> THEN <<>>
    ELSE LET e == FragmentMatch(s) IN
         IF e = 0 THEN <<Head(s)>> \o JoinFragmentsNumberOnly(Tail(s))
         ELSE LET k == CHOOSE j \in 1..Len(UnitWords) :
                           StartsWithAt(s, e + 1, UnitWords[j])
                  u == UnitWords[k]
              IN  SubSeq(s, 1, e - 1)
                    \o JoinFragmentsNumberOnly(SubSeq(s, e + 1 + Len(u), Len(s)))

\* JoinFragments, were the rule absent.
JoinFragmentsAbsent(s) == s

\* .replace(/(\d+\.?\d*)\n(kg|...)/g, '$1$2')
RECURSIVE JoinFragments(_)
JoinFragments(s) ==
    IF s = <<>> THEN <<>>
    ELSE LET e == FragmentMatch(s) IN
         IF e = 0 THEN <<Head(s)>> \o JoinFragments(Tail(s))
         ELSE LET k == CHOOSE j \in 1..Len(UnitWords) :
                           StartsWithAt(s, e + 1, UnitWords[j])
                  u == UnitWords[k]
              IN  SubSeq(s, 1, e - 1) \o u
                    \o JoinFragments(SubSeq(s, e + 1 + Len(u), Len(s)))

\* The length of the run of "\n" that s starts with.
RECURSIVE NewlineRun(_)
NewlineRun(s) ==
    IF s # <<>> /\ Head(s) = "\n" THEN 1 + NewlineRun(Tail(s)) ELSE 0

\* .replace(/\n{4,}/g, '\n\n\n')
RECURSIVE CollapseNewlines(_)
CollapseNewlines(s) ==
    IF s = <<>> THEN <<>>
    ELSE LET r == NewlineRun(s) IN
         IF r >= 4
         THEN <<"\n", "\n", "\n">> \o CollapseNewlines(SubSeq(s, r + 1, Len(s)))
         ELSE <<Head(s)>> \o CollapseNewlines(Tail(s))

\* .split('\n').map(line => line.trim()).join('\n')
TrimLines(s) ==
    LET lines == SplitLines(s)
    IN  JoinWith([k \in 1..Len(lines) |-> Trim(lines[k])], <<"\n">>)

preCleanOcr(text) ==
    LET a == ReplaceAll(text, <<"U4F11", "U820C">>, <<"U4F53", "U91CD">>)
        b == ReplaceAllAlt(a, << <<"U5167", "U81DF">>, <<"U5185", "U81DF">> >>,
                           <<"U5185", "U81D3">>)
        c == ReplaceAll(b, <<"U33A1">>, <<"U33A0">>)
        d == JoinFragments(c)
        e == CollapseNewlines(d)
    IN  TrimLines(e)

(***************************************************************************)
(* ocrSingleImage's noTextPatterns.  The phrases, as the elements a text   *)
(* is made of:                                                             *)
(*   "<no-text-in-this-image>"  kono gazou ni wa tekisuto ga fukumarete    *)
(*                              imasen                                     *)
(*   "<text-wa>"                tekisuto wa                                *)
(*   "<arimasen>"               arimasen                                   *)
(*   "<text-does-not-exist>"    tekisuto ga sonzai shimasen                *)
(*   "<cannot-extract-text>"    tekisuto wo chuushutsu dekimasen           *)
(*   "<gazou-ni>" "<text-wa>" "<mitsukarimasen>"                           *)
(*                              gazou ni tekisuto wa mitsukarimasen        *)
(*   "<tokuni>" "<arimasen>"    tokuni arimasen                            *)
(*   "<nashi>"                  nashi                                      *)
(***************************************************************************)
LineTerminators == {"\n", "\r", "U2028", "U2029"}

\* /<text-wa>.*<arimasen>/ : "." matches no line terminator.
TextWaArimasen(t) ==
    \E p \in 1..Len(t) : \E q \in (p + 1)..Len(t) :
        /\ t[p] = "<text-wa>"
        /\ t[q] = "<arimasen>"
        /\ \A r \in (p + 1)..(q - 1) : t[r] \notin LineTerminators

noTextPatterns(t) ==
    \/ Includes(t, "<no-text-in-this-image>")
    \/ TextWaArimasen(t)
    \/ Includes(t, "<text-does-not-exist>")
    \/ Includes(t, "<cannot-extract-text>")
    \/ \E p \in 1..Len(t) :
           StartsWithAt(t, p, <<"<gazou-ni>", "<text-wa>", "<mitsukarimasen>">>)
    \/ StartsWithAt(t, 1, <<"<tokuni>", "<arimasen>">>)
    \/ t = <<"<nashi>">>

\* ocrSingleImage from the backend's response to the text it returns.
ChunkTextOf(response) ==
    LET text == Trim(response)
    IN  IF noTextPatterns(text) THEN <<>> ELSE text

(***************************************************************************)
(* withRetry.                                                              *)
(***************************************************************************)
\* isRetryable, were the '429' test left out.
isRetryableNo429(message) ==
    \/ Includes(message, "503")
    \/ Includes(message, "overloaded")
    \/ Includes(message, "UNAVAILABLE")

isRetryable(message) ==
    \/ Includes(message, "503")
    \/ Includes(message, "overloaded")
    \/ Includes(message, "UNAVAILABLE")
    \/ Includes(message, "429")

\* BackoffDelay, were the delay fixed (no growth with the attempt).
BackoffDelayFixed(delay, i) == delay

\* The argument of setTimeout after the failure of attempt i (counted from 0).
BackoffDelay(delay, i) == delay * (i + 1)

\* withRetryCatch, were the budget test off by one (i === maxRetries).
withRetryCatchLate(i, retries, delay, lastError) ==
    IF ~isRetryable(lastError) \/ i = retries
    THEN [op |-> "throw", error |-> lastError, ms |-> 0]
    ELSE [op |-> "sleep", error |-> lastError, ms |-> BackoffDelay(delay, i)]

\* The catch block of attempt i (counted from 0): rethrow, or sleep and go on.
withRetryCatch(i, retries, delay, lastError) ==
    IF ~isRetryable(lastError) \/ i = retries - 1
    THEN [op |-> "throw", error |-> lastError, ms |-> 0]
    ELSE [op |-> "sleep", error |-> lastError, ms |-> BackoffDelay(delay, i)]

\* The state of one withRetry(fn) call: what it awaits ("calling": fn();
\* "sleeping": the setTimeout), or how it settled, with its locals i and lastError.
IdleCall == [pc |-> "idle", i |-> 0, lastError |-> <<>>, ms |-> 0, value |-> <<>>]

\* The loop test at i, then fn(); past the loop, throw lastError.
LoopAt(c, i, retries) ==
    IF i < retries
    THEN [c EXCEPT !.pc = "calling", !.i = i, !.ms = 0]
    ELSE [IdleCall EXCEPT !.pc = "thrown", !.lastError = c.lastError]

\* withRetry is entered with the default maxRetries, as ocrSingleImage and
\* postProcessOcr do: i = 0 and fn() is called at once.
StartedCall == [IdleCall EXCEPT !.pc = "calling"]

\* fn() resolved with v at attempt c.i: return.
CallReturns(c, v) == [IdleCall EXCEPT !.pc = "returned", !.value = <<v>>]

\* fn() rejected with message err at attempt c.i.
CallFails(c, retries, delay, err) ==
    LET d == withRetryCatch(c.i, retries, delay, err)
    IN  IF d.op = "throw"
        THEN [IdleCall EXCEPT !.pc = "thrown", !.lastError = d.error]
        ELSE [c EXCEPT !.pc = "sleeping", !.lastError = d.error, !.ms = d.ms]

\* The setTimeout fired: i++ and the loop test.
CallWakes(c, retries) == LoopAt(c, c.i + 1, retries)

InFlight(c) == c.pc \in {"calling", "sleeping"}

(***************************************************************************)
(* runWithConcurrencyLimit.                                                *)
(***************************************************************************)
Indices == 0..(totalChunks - 1)

\* WorkerCount, were one worker made per task (the limit ignored).
WorkerCountAll(lim, n) == n

\* WorkerCount, were limit workers made whatever the number of tasks
\* (Array(limit)).
WorkerCountLimit(lim, n) == lim

\* Array(Math.min(limit, tasks.length))
WorkerCount(lim, n) == Min(lim, n)

\* StoreResult, were the value pushed instead (results.push(value)): it lands
\* in the first empty slot, in completion order.
StoreResultPush(res, index, value) ==
    [res EXCEPT ![CHOOSE k \in DOMAIN res :
                      res[k] = <<>> /\ \A j \in DOMAIN res : j < k => res[j] # <<>>]
                  = <<value>>]

\* results[index] = value
StoreResult(res, index, value) == [res EXCEPT ![index] = <<value>>]

\* The worker that awaits tasks[u]().
WorkerOf(u) ==
    CHOOSE w \in DOMAIN workers :
        workers[w].state = "awaiting" /\ workers[w].index = u

\* ClaimOrReturn, were the loop test absent (while (true)): the worker awaits
\* a task past the last one.
ClaimOrReturnNoTest(ws, w, ci) ==
    [ws EXCEPT ![w] = [state |-> "awaiting", index |-> ci]]

\* runNext's loop test and claim, with the counter at ci.
ClaimOrReturn(ws, w, ci) ==
    IF ci < totalChunks
    THEN [ws EXCEPT ![w] = [state |-> "awaiting", index |-> ci]]
    ELSE [ws EXCEPT ![w] = [state |-> "returned", index |-> -1]]

\* Promise.all(workers) once the workers are ws.
PoolOnReturn(p, ws) ==
    IF p.state = "pending" /\ \A w \in DOMAIN ws : ws[w].state = "returned"
    THEN [state |-> "fulfilled", error |-> <<>>]
    ELSE p

\* PoolOnThrow, were the latest rejection kept instead of the first.
PoolOnThrowLast(p, err) == [state |-> "rejected", error |-> err]

\* Promise.all(workers) when a worker rejects with err.
PoolOnThrow(p, err) ==
    IF p.state = "pending" THEN [state |-> "rejected", error |-> err] ELSE p

\* The call itself: the workers are created one after the other, and each runs
\* to its first await, so that tasks 0..W-1 are started in order.
runWithConcurrencyLimit(idle) ==
    LET W == WorkerCount(limit, totalChunks) IN
    /\ workers' = [w \in 0..(W - 1) |-> [state |-> "awaiting", index |-> w]]
    /\ currentIndex' = W
    /\ results' = [k \in Indices |-> <<>>]
    /\ unit' = [k \in Indices |-> IF k < W THEN StartedCall ELSE idle[k]]
    /\ pool' = [state |-> "pending", error |-> <<>>]

\* tasks[u]() resolved with value: runNext stores it and claims the next index
\* or returns.  settled is unit with task u settled.
runNextResume(u, value, settled) ==
    LET w == WorkerOf(u) IN
    /\ results' = StoreResult(results, u, value)
    /\ workers' = ClaimOrReturn(workers, w, currentIndex)
    /\ currentIndex' = IF currentIndex < totalChunks THEN currentIndex + 1
                       ELSE currentIndex
    /\ unit' = IF currentIndex < totalChunks
               THEN [settled EXCEPT ![currentIndex] = StartedCall]
               ELSE settled
    /\ pool' = PoolOnReturn(pool, workers')

\* tasks[u]() rejected with err: runNext rejects, and with it Promise.all.
runNextThrow(u, err, settled) ==
    LET w == WorkerOf(u) IN
    /\ workers' = [workers EXCEPT ![w] = [state |-> "threw", index |-> -1]]
    /\ unit' = settled
    /\ pool' = PoolOnThrow(pool, err)
    /\ UNCHANGED <<results, currentIndex>>

\* The array runWithConcurrencyLimit resolves with; an empty slot is undefined.
ResultArray(res) == [k \in 1..totalChunks |-> res[k - 1]]

\* What join makes of an element: undefined is joined as the empty string.
SlotText(slot) == IF slot = <<>> THEN <<>> ELSE slot[1]

(***************************************************************************)
(* splitImage.                                                             *)
(*                                                                         *)
(* An image buffer is the rows top..top+height-1 of a picture, width       *)
(* pixels wide, and gen counts how often it was encoded anew.  width and   *)
(* height are what sharp's metadata reports; 0 stands for a missing value. *)
(***************************************************************************)
\* Math.ceil(num / den) for den > 0.
MathCeil(num, den) == -((-num) \div den)

\* sharp(imageBuffer).extract({left: 0, top, width, height}).png().toBuffer()
Extract(img, top, height) ==
    [gen |-> img.gen + 1, width |-> img.width, height |-> height,
     top |-> img.top + top]

\* ChunkHeight, were every chunk maxH rows high.
ChunkHeightFull(h, maxH, top) == maxH

\* The height of the chunk that starts at row top of an image h rows high.
ChunkHeight(h, maxH, top) == Min(maxH, h - top)

\* UnderLimit, were the image encoded anew.
UnderLimitCopy(img) == <<Extract(img, 0, img.height)>>

\* What splitImage returns for an image within the limit: the buffer itself.
UnderLimit(img) == <<img>>

splitImage(img, maxH) ==
    IF img.width = 0 \/ img.height = 0
    THEN <<img>>
    ELSE IF img.height <= maxH
    THEN UnderLimit(img)
    ELSE LET numChunks == MathCeil(img.height, maxH) IN
         [k \in 1..numChunks |->
             LET top == (k - 1) * maxH
             IN  Extract(img, top, ChunkHeight(img.height, maxH, top))]

(***************************************************************************)
(* The job-status record of POST /api/capture.                             *)
(***************************************************************************)
\* A JobStatus object; a field that is not set is <<>>, a set one is <<v>>.
JobStatus(status, progress) ==
    [status |-> status, progress |-> progress, error |-> <<>>,
     ocrText |-> <<>>, ocrChunks |-> <<>>]

\* The background task before any request: no task, no browser.
NoJob == [pc |-> "none", browser |-> "undefined"]

\* The messages a browser, page, image or storage operation may fail with.
CaptureErrors == { <<"Timeout", "60000ms", "exceeded">>, <<"net::ERR_FAILED">> }

\* ServerCatch, were the browser left as it is (no browser.close()).
ServerCatchLeavesBrowser(error) ==
    /\ captureStatus' = <<[JobStatus("error", 0) EXCEPT !.error = <<error>>]>>
    /\ job' = [job EXCEPT !.pc = "failed"]
    /\ UNCHANGED retention

\* The catch block of the background task: the record becomes 'error', and
\* the browser is closed if the variable still holds it.
ServerCatch(error) ==
    /\ captureStatus' = <<[JobStatus("error", 0) EXCEPT !.error = <<error>>]>>
    /\ job' = [pc |-> "failed",
               browser |-> IF job.browser = "open" THEN "closed" ELSE job.browser]
    /\ UNCHANGED retention

(***************************************************************************)
(* captureFullPageManually.                                                *)
(***************************************************************************)
Max(a, b) == IF a > b THEN a ELSE b

\* Math.round(num / den) for den > 0: the nearest integer, a half going up.
MathRound(num, den) == (2 * num + den) \div (2 * den)

\* DEVICE_PRESET.deviceScaleFactor
DeviceScaleFactor == 3

totalHeight == geom.docHeight

viewportHeight == geom.viewportHeight

viewportWidth == geom.viewportWidth

deviceScaleFactor == geom.deviceScaleFactor

imageWidth == viewportWidth * deviceScaleFactor

segmentImageHeight == viewportHeight * deviceScaleFactor

\* numSegments, were the division rounded down.
numSegmentsFloor == totalHeight \div viewportHeight

numSegments == MathCeil(totalHeight, viewportHeight)

\* scrollY, were the last segment tiled like the others.
scrollYNaive(i) == i * viewportHeight

\* The scrollY of the capture loop at i.
scrollY(i) ==
    IF i = numSegments - 1
    THEN Max(0, totalHeight - viewportHeight)
    ELSE i * viewportHeight

\* The screenshot taken at scroll position y: the viewport at the device
\* scale factor.
Screenshot(y) ==
    [scrollY |-> y, width |-> imageWidth, height |-> segmentImageHeight]

\* The progress written after segment i.
CaptureProgress(i) == MathRound((i + 1) * 40, numSegments) + 10

totalImageHeight == totalHeight * deviceScaleFactor

\* CompositeTop, were the last segment tiled like the others.
CompositeTopNaive(i, n) == MathRound(i * segmentImageHeight, 1)

\* The top of compositeInputs[i], of n segments.
CompositeTop(i, n) ==
    IF i = n - 1
    THEN MathRound(Max(0, totalImageHeight - segmentImageHeight), 1)
    ELSE MathRound(i * segmentImageHeight, 1)

\* BuildInputs, were the segments pushed last first.
BuildInputsReversed(segs) ==
    [k \in 1..Len(segs) |->
        [input |-> Len(segs) - k,
         top |-> CompositeTop(Len(segs) - k, Len(segs)), left |-> 0]]

\* The second loop: one overlay per segment, in the order of segments.
BuildInputs(segs) ==
    [k \in 1..Len(segs) |->
        [input |-> k - 1, top |-> CompositeTop(k - 1, Len(segs)), left |-> 0]]

\* CanvasHeight, were it the sum of the segments' heights.
CanvasHeightTiled == numSegments * segmentImageHeight

\* The height of the image sharp creates.
CanvasHeight == MathRound(totalImageHeight, 1)

\* The overlays that cover row r of the canvas, by position in inputs.
Covering(inputs, segs, r) ==
    { k \in 1..Len(inputs) :
        /\ inputs[k].top <= r
        /\ r < inputs[k].top + segs[inputs[k].input + 1].height }

\* sharp's composite: overlays are drawn in array order over the white
\* background, so a row shows the last overlay that covers it.  A row is
\* <<i, y>>: row y of segments[i]; <<-1, 0>> is background.
CompositeRows(height, inputs, segs) ==
    [r \in 0..(height - 1) |->
        LET c == Covering(inputs, segs, r) IN
        IF c = {} THEN <<-1, 0>>
        ELSE LET k == CHOOSE x \in c : \A z \in c : z <= x
             IN  <<inputs[k].input, r - inputs[k].top>>]

\* After the capture loop: compositeInputs is built, the status is written
\* and sharp is awaited.
StartComposite(segs) ==
    /\ compositeInputs' = BuildInputs(segs)
    /\ captureStatus' = <<JobStatus("compositing", 50)>>
    /\ capturePc' = "compositing"

\* The call, up to its first await.
captureFullPageManually ==
    /\ capturePc' = "dims"
    /\ UNCHANGED <<geom, segments, compositeInputs, canvas>>

\* page.evaluate returned the dimensions: the capture loop begins, or, with
\* no segment to capture, the compositing.
DimsRead ==
    /\ capturePc = "dims"
    /\ IF 0 < numSegments
       THEN /\ capturePc' = "segment"
            /\ UNCHANGED <<compositeInputs, captureStatus>>
       ELSE StartComposite(segments)
    /\ UNCHANGED <<geom, segments, canvas, job, retention, ocrVars, splitVars, cleanVars, textVars>>

\* scrollTo, the wait and the screenshot of segment i are done.
SegmentCaptured ==
    /\ capturePc = "segment"
    /\ LET i == Len(segments) IN
       /\ segments' = Append(segments, Screenshot(scrollY(i)))
       /\ IF i + 1 < numSegments
          THEN /\ captureStatus' = <<JobStatus("capturing", CaptureProgress(i))>>
               /\ UNCHANGED <<capturePc, compositeInputs>>
          ELSE StartComposite(segments')
    /\ UNCHANGED <<geom, canvas, job, retention, ocrVars, splitVars, cleanVars, textVars>>

\* sharp's toBuffer resolved: the function returns the image.  In the
\* background task uploadToStorage is awaited next.
Composited ==
    /\ capturePc = "compositing"
    /\ capturePc' = "returned"
    /\ canvas' = <<[width |-> imageWidth, height |-> CanvasHeight,
                    rows |-> CompositeRows(CanvasHeight, compositeInputs,
                                           segments)]>>
    /\ job' = IF job.pc = "capturing" THEN [job EXCEPT !.pc = "uploading"]
              ELSE job
    /\ UNCHANGED <<geom, segments, compositeInputs, captureStatus, retention,
                   ocrVars, splitVars, cleanVars, textVars>>

\* An awaited page or sharp operation rejected with error: the function
\* rejects, and in the background task the catch block runs.
CaptureThrows(error) ==
    /\ capturePc \in {"dims", "segment", "compositing"}
    /\ capturePc' = "thrown"
    /\ IF job.pc = "capturing" THEN ServerCatch(error) ELSE UNCHANGED srvVars
    /\ UNCHANGED <<geom, segments, compositeInputs, canvas, ocrVars, splitVars, cleanVars, textVars>>

(***************************************************************************)
(* POST /api/capture: the background task around capture and OCR.          *)
(***************************************************************************)
\* The options.onProgress the task passes to performOcr.
onProgress(current, total) ==
    [JobStatus("ocr_processing", MathRound(current * 30, total) + 55)
        EXCEPT !.ocrChunks = <<[current |-> current, total |-> total]>>]

\* The options.onStatusChange the task passes: it writes on 'cleaning' only.
onStatusChange(record, status) ==
    IF status = "cleaning" THEN <<JobStatus("ocr_cleaning", 90)>> ELSE record

\* The record written when performOcr resolved with markdown.
OcrCompleted(markdown) ==
    [JobStatus("completed", 100) EXCEPT !.ocrText = <<markdown>>]

\* OcrFailed, were a failed OCR recorded like a failed capture.
OcrFailedAsError(message) ==
    [JobStatus("error", 0) EXCEPT !.error = <<message>>]

\* The record written in the catch block around performOcr.
OcrFailed(message) ==
    [JobStatus("completed", 100) EXCEPT !.ocrText = << <<>> >>,
                                        !.error = <<<<"<OCR-error>:">> \o message>>]

\* KeyNotConfigured, were the job recorded as failed.
KeyNotConfiguredAsError ==
    [JobStatus("error", 0)
        EXCEPT !.error = <<<<"GEMINI_API_KEY", "<is-not-configured>">>>>]

\* The record written when GEMINI_API_KEY is not set.
KeyNotConfigured ==
    [JobStatus("completed", 100)
        EXCEPT !.ocrText = << <<>> >>,
               !.error = <<<<"GEMINI_API_KEY", "<is-not-configured>">>>>]

\* What one turn of performOcr does to the job: the callbacks it called, in
\* the order of the code, then, when performOcr settled in this turn, the
\* task's continuation, which writes the final record and sets the timer.
\* A performOcr that no task called has no callbacks.
ServerSees ==
    IF job.pc = "none"
    THEN UNCHANGED srvVars
    ELSE LET afterProgress ==
                 IF progressLog' # progressLog
                 THEN LET c == progressLog'[Len(progressLog')]
                      IN  <<onProgress(c[1], c[2])>>
                      ELSE captureStatus
             afterStatus ==
                 IF statusLog' # statusLog
                 THEN onStatusChange(afterProgress, statusLog'[Len(statusLog')])
                 ELSE afterProgress
         IN  IF job.pc = "ocr" /\ outcome'.state = "resolved"
             THEN /\ captureStatus' = <<OcrCompleted(outcome'.markdown)>>
                  /\ retention' = "armed"
                  /\ job' = [job EXCEPT !.pc = "done"]
             ELSE IF job.pc = "ocr" /\ outcome'.state = "rejected"
             THEN /\ captureStatus' = <<OcrFailed(outcome'.error)>>
                  /\ retention' = "armed"
                  /\ job' = [job EXCEPT !.pc = "done"]
             ELSE /\ captureStatus' = afterStatus
                  /\ UNCHANGED <<job, retention>>

\* browser.close() resolved and the task calls performOcr.
ServerCallsOcr ==
    IF job.pc = "none"
    THEN UNCHANGED srvVars
    ELSE /\ captureStatus' = <<JobStatus("ocr_starting", 55)>>
         /\ job' = [pc |-> "ocr", browser |-> "undefined"]
         /\ UNCHANGED retention

\* POST /api/capture with or without a url in the body.
PostCapture(url) ==
    /\ job.pc = "listening"
    /\ IF url
       THEN /\ captureStatus' = <<JobStatus("launching", 5)>>
            /\ job' = [job EXCEPT !.pc = "launching"]
       ELSE /\ job' = [job EXCEPT !.pc = "bad_request"]
            /\ UNCHANGED captureStatus
    /\ UNCHANGED <<retention, ocrVars, capVars, splitVars, cleanVars, textVars>>

\* chromium.launch resolved.
BrowserLaunched ==
    /\ job.pc = "launching"
    /\ job' = [pc |-> "context", browser |-> "open"]
    /\ UNCHANGED <<captureStatus, retention, ocrVars, capVars, splitVars, cleanVars, textVars>>

\* newContext and newPage resolved.
PageOpened ==
    /\ job.pc = "context"
    /\ captureStatus' = <<JobStatus("loading", 10)>>
    /\ job' = [job EXCEPT !.pc = "loading"]
    /\ UNCHANGED <<retention, ocrVars, capVars, splitVars, cleanVars, textVars>>

\* page.goto resolved.
PageLoaded ==
    /\ job.pc = "loading"
    /\ job' = [job EXCEPT !.pc = "settling"]
    /\ UNCHANGED <<captureStatus, retention, ocrVars, capVars, splitVars, cleanVars, textVars>>

\* The waits, the lazy-load rewrite, the scrolling and the freeze script are
\* done: captureFullPageManually is called.
PageSettled ==
    /\ job.pc = "settling"
    /\ job' = [job EXCEPT !.pc = "capturing"]
    /\ captureFullPageManually
    /\ UNCHANGED <<captureStatus, retention, ocrVars, splitVars, cleanVars, textVars>>

\* uploadToStorage resolved: the context and the browser are closed next.
Uploaded ==
    /\ job.pc = "uploading"
    /\ job' = [job EXCEPT !.pc = "closing"]
    /\ UNCHANGED <<captureStatus, retention, ocrVars, capVars, splitVars, cleanVars, textVars>>

\* An awaited operation of the task itself rejected with error.
StageFails(error) ==
    /\ job.pc \in {"launching", "context", "loading", "settling", "uploading",
                   "closing"}
    /\ ServerCatch(error)
    /\ UNCHANGED <<ocrVars, capVars, splitVars, cleanVars, textVars>>

\* browser.close() resolved and GEMINI_API_KEY is not set: performOcr is not
\* called.
OcrSkipped ==
    /\ job.pc = "closing"
    /\ ~apiKey
    /\ captureStatus' = <<KeyNotConfigured>>
    /\ retention' = "armed"
    /\ job' = [pc |-> "done", browser |-> "undefined"]
    /\ UNCHANGED <<ocrVars, capVars, splitVars, cleanVars, textVars>>

\* The setTimeout of the task fires: captureStatus.delete(jobId).
RetentionTimer ==
    /\ retention = "armed"
    /\ retention' = "fired"
    /\ captureStatus' = <<>>
    /\ UNCHANGED <<job, ocrVars, capVars, splitVars, cleanVars, textVars>>

(***************************************************************************)
(* The backend, as performOcr sees it.                                     *)
(***************************************************************************)
\* What the vision backend may answer for chunk u: the chunk's text, or a
\* "no text" phrase.
ChunkResponses(u) ==
    { <<" ", Digits[u + 1], "\n", "k", "g", "\n">>, <<"<nashi>", "\n">> }

\* What the text backend may answer to the reflow request.
ReflowResponses == { <<"<reflowed>", "\n">> }

\* The messages a backend call may fail with.
BackendErrors ==
    { <<"[", "503", "]">>, <<"[", "500", "]">>, <<"[", "429", "]", "quota">> }

MissingKeyError == <<"GEMINI_API_KEY", "<is-not-set>">>

QuotaError == <<"<quota-limit-reached>">>

TooLargeError == <<"<image-too-large>">>

\* performOcr's catch block: the error it rethrows.
performOcrCatch(error) ==
    IF Includes(error, "RESOURCE_EXHAUSTED") \/ Includes(error, "quota")
    THEN QuotaError
    ELSE IF Includes(error, "too large") \/ Includes(error, "size")
    THEN TooLargeError
    ELSE error

Pending == [state |-> "pending", markdown |-> <<>>, error |-> <<>>, warnings |-> 0]

\* postProcessOcrCatch, were the error rethrown.
postProcessOcrRethrow(rawText, error) ==
    [state |-> "rejected", text |-> <<>>, error |-> error]

\* postProcessOcr when its withRetry call threw: the catch block returns rawText.
postProcessOcrCatch(rawText, error) ==
    [state |-> "resolved", text |-> rawText, error |-> <<>>]

(***************************************************************************)
(* performOcr.                                                             *)
(***************************************************************************)
\* JoinTexts, were the separator a single line break (join('\n')).
JoinTextsNewline(allTexts) == JoinWith(allTexts, <<"\n">>)

\* allTexts.join('\n\n')
JoinTexts(allTexts) == JoinWith(allTexts, <<"\n", "\n">>)

\* AfterExtraction, were options.onStatusChange never called.
AfterExtractionSilent(allTexts) ==
    /\ combinedText' = JoinTexts(allTexts)
    /\ preCleanedText' = preCleanOcr(combinedText')
    /\ statusLog' = statusLog
    /\ reflow' = StartedCall
    /\ phase' = "cleaning"
    /\ UNCHANGED outcome

\* From allTexts to the reflow request: join, preCleanOcr, onStatusChange,
\* and postProcessOcr up to its backend call.
AfterExtraction(allTexts) ==
    /\ combinedText' = JoinTexts(allTexts)
    /\ preCleanedText' = preCleanOcr(combinedText')
    /\ statusLog' = Append(statusLog, "cleaning")
    /\ reflow' = StartedCall
    /\ phase' = "cleaning"
    /\ UNCHANGED outcome

\* The try block threw error while extracting.
ExtractionThrows(error) ==
    /\ outcome' = [Pending EXCEPT !.state = "rejected",
                                  !.error = performOcrCatch(error)]
    /\ phase' = "done"
    /\ UNCHANGED <<combinedText, preCleanedText, statusLog, reflow>>

\* performOcr is called: the key check, then the first backend requests.
PerformOcrCall ==
    /\ phase = "idle"
    /\ job.pc \in {"none", "closing"}
    /\ job.pc = "closing" => apiKey
    /\ IF ~apiKey
       THEN /\ outcome' = [Pending EXCEPT !.state = "rejected",
                                          !.error = MissingKeyError]
            /\ phase' = "done"
            /\ UNCHANGED <<unit, currentIndex, results, workers, pool>>
       ELSE /\ phase' = "extracting"
            /\ UNCHANGED outcome
            /\ IF totalChunks = 1
               THEN /\ unit' = [unit EXCEPT ![0] = StartedCall]
                    /\ UNCHANGED <<currentIndex, results, workers, pool>>
               ELSE runWithConcurrencyLimit(unit)
    /\ UNCHANGED <<apiKey, totalChunks, limit, maxRetries, delayMs, combinedText,
                   preCleanedText, reflow, progressLog, statusLog, settleLog, rt>>
    /\ ServerCallsOcr
    /\ UNCHANGED <<capVars, splitVars, cleanVars, textVars>>

\* The backend answers the request of chunk u: the rest of ocrSingleImage, then
\* whoever awaits it.
ChunkResponse(u, response) ==
    /\ unit[u].pc = "calling"
    /\ LET text == ChunkTextOf(response)
           settled == [unit EXCEPT ![u] = CallReturns(unit[u], text)]
       IN  /\ progressLog' = Append(progressLog, <<u + 1, totalChunks>>)
           /\ settleLog' = Append(settleLog, u)
           /\ IF totalChunks = 1
              THEN /\ unit' = settled
                   /\ UNCHANGED <<currentIndex, results, workers, pool>>
                   /\ AfterExtraction(<<text>>)
              ELSE /\ runNextResume(u, text, settled)
                   /\ IF pool.state = "pending" /\ pool'.state = "fulfilled"
                      THEN AfterExtraction(
                               [k \in 1..totalChunks |->
                                   SlotText(ResultArray(results')[k])])
                      ELSE UNCHANGED <<combinedText, preCleanedText, statusLog,
                                       reflow, phase, outcome>>
    /\ UNCHANGED <<apiKey, totalChunks, limit, maxRetries, delayMs, rt>>
    /\ ServerSees
    /\ UNCHANGED <<capVars, splitVars, cleanVars, textVars>>

\* The withRetry loop of chunk u goes to c after a failed attempt or a timer:
\* it waits on, or it rethrows and the task rejects, and whoever awaits it.
ChunkRetryStep(u, c) ==
    LET settled == [unit EXCEPT ![u] = c] IN
    IF InFlight(c)
    THEN /\ unit' = settled
         /\ UNCHANGED <<currentIndex, results, workers, pool, settleLog,
                        combinedText, preCleanedText, statusLog, reflow,
                        phase, outcome>>
    ELSE /\ settleLog' = Append(settleLog, u)
         /\ IF totalChunks = 1
            THEN /\ unit' = settled
                 /\ UNCHANGED <<currentIndex, results, workers, pool>>
                 /\ ExtractionThrows(c.lastError)
            ELSE /\ runNextThrow(u, c.lastError, settled)
                 /\ IF pool.state = "pending"
                    THEN ExtractionThrows(pool'.error)
                    ELSE UNCHANGED <<combinedText, preCleanedText,
                                     statusLog, reflow, phase, outcome>>

\* The backend call of chunk u fails with message err: withRetry's catch block.
ChunkError(u, err) ==
    /\ unit[u].pc = "calling"
    /\ ChunkRetryStep(u, CallFails(unit[u], maxRetries, delayMs, err))
    /\ UNCHANGED <<apiKey, totalChunks, limit, maxRetries, delayMs, progressLog, rt>>
    /\ ServerSees
    /\ UNCHANGED <<capVars, splitVars, cleanVars, textVars>>

\* The backoff timer of chunk u fires: the next attempt is made.
ChunkTimer(u) ==
    /\ unit[u].pc = "sleeping"
    /\ ChunkRetryStep(u, CallWakes(unit[u], maxRetries))
    /\ UNCHANGED <<apiKey, totalChunks, limit, maxRetries, delayMs, progressLog, rt>>
    /\ ServerSees
    /\ UNCHANGED <<capVars, splitVars, cleanVars, textVars>>

\* performOcr's return value, given the text postProcessOcr returned.
OcrResult(cleanedText) ==
    [Pending EXCEPT !.state = "resolved", !.markdown = cleanedText,
                    !.warnings = IF totalChunks > 1 THEN totalChunks ELSE 0]

\* The text backend answers the reflow request.
ReflowResponse(response) ==
    /\ reflow.pc = "calling"
    /\ reflow' = CallReturns(reflow, Trim(response))
    /\ outcome' = OcrResult(Trim(response))
    /\ phase' = "done"
    /\ UNCHANGED <<apiKey, totalChunks, limit, maxRetries, delayMs, unit,
                   currentIndex, results, workers, pool, combinedText,
                   preCleanedText, progressLog, statusLog, settleLog, rt>>
    /\ ServerSees
    /\ UNCHANGED <<capVars, splitVars, cleanVars, textVars>>

\* The withRetry loop of the reflow request goes to c after a failed attempt
\* or a timer: it waits on, or it rethrows into postProcessOcr's catch block.
ReflowRetryStep(c) ==
    /\ reflow' = c
    /\ IF InFlight(c)
       THEN UNCHANGED <<outcome, phase>>
       ELSE LET r == postProcessOcrCatch(preCleanedText, c.lastError) IN
            /\ outcome' = IF r.state = "resolved" THEN OcrResult(r.text)
                          ELSE [Pending EXCEPT !.state = "rejected",
                                               !.error = performOcrCatch(r.error)]
            /\ phase' = "done"
    /\ UNCHANGED <<apiKey, totalChunks, limit, maxRetries, delayMs, unit,
                   currentIndex, results, workers, pool, combinedText,
                   preCleanedText, progressLog, statusLog, settleLog, rt>>
    /\ ServerSees
    /\ UNCHANGED <<capVars, splitVars, cleanVars, textVars>>

\* The reflow request fails with message err.
ReflowError(err) ==
    /\ reflow.pc = "calling"
    /\ ReflowRetryStep(CallFails(reflow, maxRetries, delayMs, err))

\* The backoff timer of the reflow request fires.
ReflowTimer ==
    /\ reflow.pc = "sleeping"
    /\ ReflowRetryStep(CallWakes(reflow, maxRetries))

\* captureFullPageManually is not called.
NoCapture ==
    /\ geom = [docHeight |-> 0, viewportHeight |-> 1, viewportWidth |-> 1,
               deviceScaleFactor |-> DeviceScaleFactor]
    /\ capturePc = "idle"
    /\ segments = <<>>
    /\ compositeInputs = <<>>
    /\ canvas = <<>>

\* No splitImage call: pc is where the call is, out what it returned, at the
\* await that rejected, and round counts the calls made on a chunk of an
\* earlier call.
NoChunks == [pc |-> "idle", out |-> <<>>, round |-> 0, at |-> "none"]

\* ocrSingleImage is not called on its own.
NoChunkText == modelText = <<>> /\ chunkText = <<>>

\* preCleanOcr is not called on its own.
NoClean == cleanArg = <<>> /\ cleaned = <<>>

\* splitImage is not called on its own.
NoSplit ==
    /\ image = [gen |-> 0, width |-> 0, height |-> 0, top |-> 0]
    /\ maxHeight = MaxChunkHeight
    /\ chunks = NoChunks

\* A withRetry call on its own: its loop, the number of times fn was called,
\* the delays slept, and what each fn() call settled with.
RtIdle == [call |-> IdleCall, calls |-> 0, sleeps |-> <<>>, log |-> <<>>]

Init ==
    /\ apiKey \in BOOLEAN
    /\ totalChunks \in 1..MaxChunks
    /\ limit = OCR_CONCURRENCY_LIMIT
    /\ maxRetries = DefaultMaxRetries
    /\ delayMs = DefaultDelayMs
    /\ phase = "idle"
    /\ unit = [k \in Indices |-> IdleCall]
    /\ currentIndex = 0
    /\ results = [k \in Indices |-> <<>>]
    /\ workers = <<>>
    /\ pool = [state |-> "none", error |-> <<>>]
    /\ combinedText = <<>>
    /\ preCleanedText = <<>>
    /\ reflow = IdleCall
    /\ outcome = Pending
    /\ progressLog = <<>>
    /\ statusLog = <<>>
    /\ settleLog = <<>>
    /\ rt = RtIdle
    /\ NoCapture
    /\ job = NoJob /\ captureStatus = <<>> /\ retention = "unset"
    /\ NoSplit
    /\ NoClean
    /\ NoChunkText

Next ==
    \/ PerformOcrCall
    \/ \E u \in Indices : \E response \in ChunkResponses(u) : ChunkResponse(u, response)
    \/ \E u \in Indices : \E err \in BackendErrors : ChunkError(u, err)
    \/ \E u \in Indices : ChunkTimer(u)
    \/ \E response \in ReflowResponses : ReflowResponse(response)
    \/ \E err \in BackendErrors : ReflowError(err)
    \/ ReflowTimer

Spec == Init /\ [][Next]_vars

\* The request of unit u, or of the reflow call when u = -1, is not awaited
\* for ever, and its backoff timer is not pending for ever.
CallAnswered(u) ==
    LET c == IF u = -1 THEN reflow
             ELSE IF u \in Indices THEN unit[u] ELSE IdleCall
    IN  []<>(c.pc # "calling") /\ []<>(c.pc # "sleeping")

\* performOcr where every backend call returns or throws and every timer
\* fires.
SpecFair == Spec /\ \A u \in -1..(MaxChunks - 1) : CallAnswered(u)

(***************************************************************************)
(* withRetry on its own, with any maxRetries and delayMs and any fn.       *)
(***************************************************************************)
RetryDelays == {DefaultDelayMs, 500}

\* The messages fn may reject with.
RetryErrors ==
    { <<"[", "503", "Service", "Unavailable", "]">>,
      <<"The", "model", "is", "overloaded">>,
      <<"UNAVAILABLE">>,
      <<"[", "429", "]">>,
      <<"[", "500", "]">>,
      <<"Overloaded">>,
      <<"fetch", "failed">> }

\* The values fn may resolve with.
RetryValues == { <<"v">>, <<"w">> }

\* withRetry(fn, maxRetries, delayMs) is called.
RtCall ==
    /\ rt.call.pc = "idle"
    /\ LET c == LoopAt(IdleCall, 0, maxRetries) IN
       rt' = [rt EXCEPT !.call = c,
                        !.calls = IF c.pc = "calling" THEN 1 ELSE 0]
    /\ UNCHANGED <<apiKey, totalChunks, limit, maxRetries, delayMs, phase, unit,
                   currentIndex, results, workers, pool, combinedText,
                   preCleanedText, reflow, outcome, progressLog, statusLog,
                   settleLog>>
    /\ UNCHANGED <<capVars, srvVars, splitVars, cleanVars, textVars>>

\* fn() resolves with v.
RtFnResolves(v) ==
    /\ rt.call.pc = "calling"
    /\ rt' = [rt EXCEPT !.call = CallReturns(rt.call, v),
                        !.log = Append(rt.log, [ok |-> TRUE, v |-> v])]
    /\ UNCHANGED <<apiKey, totalChunks, limit, maxRetries, delayMs, phase, unit,
                   currentIndex, results, workers, pool, combinedText,
                   preCleanedText, reflow, outcome, progressLog, statusLog,
                   settleLog>>
    /\ UNCHANGED <<capVars, srvVars, splitVars, cleanVars, textVars>>

\* fn() rejects with message err.
RtFnRejects(err) ==
    /\ rt.call.pc = "calling"
    /\ LET c == CallFails(rt.call, maxRetries, delayMs, err) IN
       rt' = [rt EXCEPT !.call = c,
                        !.log = Append(rt.log, [ok |-> FALSE, v |-> err]),
                        !.sleeps = IF c.pc = "sleeping"
                                   THEN Append(rt.sleeps, c.ms)
                                   ELSE rt.sleeps]
    /\ UNCHANGED <<apiKey, totalChunks, limit, maxRetries, delayMs, phase, unit,
                   currentIndex, results, workers, pool, combinedText,
                   preCleanedText, reflow, outcome, progressLog, statusLog,
                   settleLog>>
    /\ UNCHANGED <<capVars, srvVars, splitVars, cleanVars, textVars>>

\* The setTimeout fires.
RtTimer ==
    /\ rt.call.pc = "sleeping"
    /\ LET c == CallWakes(rt.call, maxRetries) IN
       rt' = [rt EXCEPT !.call = c,
                        !.calls = IF c.pc = "calling" THEN rt.calls + 1
                                  ELSE rt.calls]
    /\ UNCHANGED <<apiKey, totalChunks, limit, maxRetries, delayMs, phase, unit,
                   currentIndex, results, workers, pool, combinedText,
                   preCleanedText, reflow, outcome, progressLog, statusLog,
                   settleLog>>
    /\ UNCHANGED <<capVars, srvVars, splitVars, cleanVars, textVars>>

InitRetry ==
    /\ apiKey = TRUE
    /\ totalChunks = 1
    /\ limit = OCR_CONCURRENCY_LIMIT
    /\ maxRetries \in 0..MaxRetriesArg
    /\ delayMs \in RetryDelays
    /\ phase = "idle"
    /\ unit = [k \in Indices |-> IdleCall]
    /\ currentIndex = 0
    /\ results = [k \in Indices |-> <<>>]
    /\ workers = <<>>
    /\ pool = [state |-> "none", error |-> <<>>]
    /\ combinedText = <<>>
    /\ preCleanedText = <<>>
    /\ reflow = IdleCall
    /\ outcome = Pending
    /\ progressLog = <<>>
    /\ statusLog = <<>>
    /\ settleLog = <<>>
    /\ rt = RtIdle
    /\ NoCapture
    /\ job = NoJob /\ captureStatus = <<>> /\ retention = "unset"
    /\ NoSplit
    /\ NoClean
    /\ NoChunkText

NextRetry ==
    \/ RtCall
    \/ \E v \in RetryValues : RtFnResolves(v)
    \/ \E err \in RetryErrors : RtFnRejects(err)
    \/ RtTimer

SpecRetry == InitRetry /\ [][NextRetry]_vars

(***************************************************************************)
(* runWithConcurrencyLimit on its own, with any tasks and any limit.       *)
(***************************************************************************)
\* The values a task may resolve with.
TaskValues == { <<"a">>, <<"b">> }

\* The messages a task may reject with.
TaskErrors == { <<"E1">>, <<"E2">> }

\* runWithConcurrencyLimit(tasks, limit) is called.
ExecCall ==
    /\ phase = "idle"
    /\ phase' = "extracting"
    /\ runWithConcurrencyLimit(unit)
    /\ UNCHANGED <<apiKey, totalChunks, limit, maxRetries, delayMs, combinedText,
                   preCleanedText, reflow, outcome, progressLog, statusLog,
                   settleLog, rt>>
    /\ UNCHANGED <<capVars, srvVars, splitVars, cleanVars, textVars>>

\* tasks[u]() resolves with v.
TaskResolves(u, v) ==
    /\ unit[u].pc = "calling"
    /\ runNextResume(u, v, [unit EXCEPT ![u] = CallReturns(unit[u], v)])
    /\ settleLog' = Append(settleLog, u)
    /\ UNCHANGED <<apiKey, totalChunks, limit, maxRetries, delayMs, phase,
                   combinedText, preCleanedText, reflow, outcome, progressLog,
                   statusLog, rt>>
    /\ UNCHANGED <<capVars, srvVars, splitVars, cleanVars, textVars>>

\* tasks[u]() rejects with message err.
TaskRejects(u, err) ==
    /\ unit[u].pc = "calling"
    /\ runNextThrow(u, err, [unit EXCEPT ![u] =
                                [IdleCall EXCEPT !.pc = "thrown", !.lastError = err]])
    /\ settleLog' = Append(settleLog, u)
    /\ UNCHANGED <<apiKey, totalChunks, limit, maxRetries, delayMs, phase,
                   combinedText, preCleanedText, reflow, outcome, progressLog,
                   statusLog, rt>>
    /\ UNCHANGED <<capVars, srvVars, splitVars, cleanVars, textVars>>

InitExec ==
    /\ apiKey = TRUE
    /\ totalChunks \in 1..MaxUnits
    /\ limit \in 1..MaxUnits
    /\ maxRetries = DefaultMaxRetries
    /\ delayMs = DefaultDelayMs
    /\ phase = "idle"
    /\ unit = [k \in Indices |-> IdleCall]
    /\ currentIndex = 0
    /\ results = [k \in Indices |-> <<>>]
    /\ workers = <<>>
    /\ pool = [state |-> "none", error |-> <<>>]
    /\ combinedText = <<>>
    /\ preCleanedText = <<>>
    /\ reflow = IdleCall
    /\ outcome = Pending
    /\ progressLog = <<>>
    /\ statusLog = <<>>
    /\ settleLog = <<>>
    /\ rt = RtIdle
    /\ NoCapture
    /\ job = NoJob /\ captureStatus = <<>> /\ retention = "unset"
    /\ NoSplit
    /\ NoClean
    /\ NoChunkText

NextExec ==
    \/ ExecCall
    \/ \E u \in Indices : \E v \in TaskValues : TaskResolves(u, v)
    \/ \E u \in Indices : \E err \in TaskErrors : TaskRejects(u, err)

SpecExec == InitExec /\ [][NextExec]_vars

(***************************************************************************)
(* One capture job from the request to the deletion of its record.         *)
(***************************************************************************)
\* The document heights a page may report, in CSS pixels: shorter than the
\* viewport, exactly one, and several viewports.
PageHeights == {500, 664, 2500, 2700}

\* What page.evaluate may report in the background task.
ServerGeometries ==
    { [docHeight |-> h, viewportHeight |-> 664, viewportWidth |-> 390,
       deviceScaleFactor |-> DeviceScaleFactor] : h \in PageHeights }

\* chunks.length for the image captureFullPageManually returns.
JobChunks ==
    Len(splitImage([gen |-> 0, width |-> imageWidth, height |-> CanvasHeight,
                    top |-> 0], MaxChunkHeight))

InitServer ==
    /\ apiKey \in BOOLEAN
    /\ geom \in ServerGeometries
    /\ totalChunks = JobChunks
    /\ limit = OCR_CONCURRENCY_LIMIT
    /\ maxRetries = DefaultMaxRetries
    /\ delayMs = DefaultDelayMs
    /\ phase = "idle"
    /\ unit = [k \in Indices |-> IdleCall]
    /\ currentIndex = 0
    /\ results = [k \in Indices |-> <<>>]
    /\ workers = <<>>
    /\ pool = [state |-> "none", error |-> <<>>]
    /\ combinedText = <<>>
    /\ preCleanedText = <<>>
    /\ reflow = IdleCall
    /\ outcome = Pending
    /\ progressLog = <<>>
    /\ statusLog = <<>>
    /\ settleLog = <<>>
    /\ rt = RtIdle
    /\ capturePc = "idle"
    /\ segments = <<>>
    /\ compositeInputs = <<>>
    /\ canvas = <<>>
    /\ job = [pc |-> "listening", browser |-> "undefined"]
    /\ captureStatus = <<>>
    /\ retention = "unset"
    /\ NoSplit
    /\ NoClean
    /\ NoChunkText

NextServer ==
    \/ \E url \in BOOLEAN : PostCapture(url)
    \/ BrowserLaunched
    \/ PageOpened
    \/ PageLoaded
    \/ PageSettled
    \/ DimsRead
    \/ SegmentCaptured
    \/ Composited
    \/ \E error \in CaptureErrors : CaptureThrows(error)
    \/ Uploaded
    \/ \E error \in CaptureErrors : StageFails(error)
    \/ OcrSkipped
    \/ RetentionTimer
    \/ PerformOcrCall
    \/ \E u \in Indices : \E response \in ChunkResponses(u) : ChunkResponse(u, response)
    \/ \E u \in Indices : \E err \in BackendErrors : ChunkError(u, err)
    \/ \E u \in Indices : ChunkTimer(u)
    \/ \E response \in ReflowResponses : ReflowResponse(response)
    \/ \E err \in BackendErrors : ReflowError(err)
    \/ ReflowTimer

SpecServer == InitServer /\ [][NextServer]_vars

\* performOcr called by another module than the server, GEMINI_API_KEY unset.
InitDirect == Init /\ ~apiKey

\* The server's job, or a call of performOcr from outside it without the key.
InitKey == InitServer \/ InitDirect

SpecKey == InitKey /\ [][NextServer]_vars

\* No backend call is awaited and no backoff timer is pending.
NoCallInFlight == (\A u \in Indices : ~InFlight(unit[u])) /\ ~InFlight(reflow)

\* The request is made, every awaited operation of the task resolves or
\* rejects, every backend call returns or throws, and every timer fires.
SpecServerFair ==
    /\ SpecServer
    /\ WF_vars(\E url \in BOOLEAN : PostCapture(url))
    /\ WF_vars(BrowserLaunched)
    /\ WF_vars(PageOpened)
    /\ WF_vars(PageLoaded)
    /\ WF_vars(PageSettled)
    /\ WF_vars(DimsRead)
    /\ WF_vars(SegmentCaptured)
    /\ WF_vars(Composited)
    /\ WF_vars(Uploaded)
    /\ WF_vars(OcrSkipped)
    /\ WF_vars(PerformOcrCall)
    /\ WF_vars(RetentionTimer)
    /\ []<>NoCallInFlight

(***************************************************************************)
(* captureFullPageManually on its own, for any page geometry.              *)
(***************************************************************************)
\* performOcr is not called.
NoOcr ==
    /\ apiKey = TRUE
    /\ totalChunks = 1
    /\ limit = OCR_CONCURRENCY_LIMIT
    /\ maxRetries = DefaultMaxRetries
    /\ delayMs = DefaultDelayMs
    /\ phase = "idle"
    /\ unit = [k \in Indices |-> IdleCall]
    /\ currentIndex = 0
    /\ results = [k \in Indices |-> <<>>]
    /\ workers = <<>>
    /\ pool = [state |-> "none", error |-> <<>>]
    /\ combinedText = <<>>
    /\ preCleanedText = <<>>
    /\ reflow = IdleCall
    /\ outcome = Pending
    /\ progressLog = <<>>
    /\ statusLog = <<>>
    /\ settleLog = <<>>
    /\ rt = RtIdle

\* A page 2500 pixels high in a viewport of 800 by 390, at scale factor 3.
ScenarioGeometry ==
    [docHeight |-> 2500, viewportHeight |-> 800, viewportWidth |-> 390,
     deviceScaleFactor |-> DeviceScaleFactor]

\* The geometries a page may report: scrollHeight, innerHeight and innerWidth
\* are integers, and the viewport is not empty.
CaptureGeometries ==
    [docHeight : 0..MaxTotalHeight, viewportHeight : 1..MaxViewportHeight,
     viewportWidth : 1..MaxViewportWidth, deviceScaleFactor : 1..MaxScale]
    \cup {ScenarioGeometry}

\* captureFullPageManually(page, deviceScaleFactor, jobId) is called.
CaptureCall ==
    /\ capturePc = "idle"
    /\ job.pc = "none"
    /\ captureFullPageManually
    /\ UNCHANGED <<srvVars, ocrVars, splitVars, cleanVars, textVars>>

InitCapture ==
    /\ NoOcr
    /\ geom \in CaptureGeometries
    /\ capturePc = "idle"
    /\ segments = <<>>
    /\ compositeInputs = <<>>
    /\ canvas = <<>>
    /\ job = NoJob /\ captureStatus = <<>> /\ retention = "unset"
    /\ NoSplit
    /\ NoClean
    /\ NoChunkText

NextCapture ==
    \/ CaptureCall
    \/ DimsRead
    \/ SegmentCaptured
    \/ Composited
    \/ \E error \in CaptureErrors : CaptureThrows(error)

SpecCapture == InitCapture /\ [][NextCapture]_vars

(***************************************************************************)
(* splitImage on its own, for any image and any maxHeight.                 *)
(***************************************************************************)
\* An image 9000 rows high, to be split at 4000.
ScenarioImage == [gen |-> 0, width |-> 1170, height |-> 9000, top |-> 0]

\* The images and limits of a call: a width or height of 0 is one that
\* sharp's metadata does not report.
SplitInputs ==
    ([gen : {0}, width : 0..MaxImageWidth, height : 0..MaxImageHeight, top : {0}]
        \X (1..MaxLimit))
    \cup {<<ScenarioImage, MaxChunkHeight>>}

\* splitImage(imageBuffer, maxHeight) is called: metadata is awaited.
SplitImageCall ==
    /\ chunks.pc = "idle"
    /\ chunks' = [chunks EXCEPT !.pc = "awaiting"]
    /\ UNCHANGED <<image, maxHeight, ocrVars, capVars, srvVars, cleanVars, textVars>>

\* metadata and every extract resolved: the function returns its chunks.
SplitImageReturns ==
    /\ chunks.pc = "awaiting"
    /\ chunks' = [chunks EXCEPT !.pc = "returned",
                                !.out = splitImage(image, maxHeight)]
    /\ UNCHANGED <<image, maxHeight, ocrVars, capVars, srvVars, cleanVars, textVars>>

\* The awaits of a call that may reject: image.metadata(), when sharp cannot
\* read the buffer, and, when the image is split, an extract.
SplitAwaits ==
    {"metadata"} \cup
    (IF image.width # 0 /\ image.height # 0 /\ image.height > maxHeight
     THEN {"extract"} ELSE {})

\* The await at rejected: nothing catches it, and the function rejects.
SplitImageThrows(at) ==
    /\ chunks.pc = "awaiting"
    /\ at \in SplitAwaits
    /\ chunks' = [chunks EXCEPT !.pc = "thrown", !.at = at]
    /\ UNCHANGED <<image, maxHeight, ocrVars, capVars, srvVars, cleanVars, textVars>>

\* splitImage is called on chunk k of what it returned.
SplitImageAgain(k) ==
    /\ chunks.pc = "returned"
    /\ chunks.round = 0
    /\ image' = chunks.out[k]
    /\ chunks' = [pc |-> "awaiting", out |-> <<>>, round |-> 1, at |-> "none"]
    /\ UNCHANGED <<maxHeight, ocrVars, capVars, srvVars, cleanVars, textVars>>

InitSplit ==
    /\ NoOcr
    /\ NoCapture
    /\ job = NoJob /\ captureStatus = <<>> /\ retention = "unset"
    /\ \E input \in SplitInputs : image = input[1] /\ maxHeight = input[2]
    /\ chunks = NoChunks
    /\ NoClean
    /\ NoChunkText

NextSplit ==
    \/ SplitImageCall
    \/ SplitImageReturns
    \/ \E at \in {"metadata", "extract"} : SplitImageThrows(at)
    \/ \E k \in 1..Len(chunks.out) : SplitImageAgain(k)

SpecSplit == InitSplit /\ [][NextSplit]_vars

(***************************************************************************)
(* preCleanOcr on its own: one call on a text.                             *)
(***************************************************************************)
\* U4F11 U820C, a line break, "60kg": the misread word and a quantity on the
\* next line.
ScenarioText == <<"U4F11", "U820C", "\n", "6", "0", "k", "g">>

\* The misread word, and a number with its unit on the next line.
FragmentText == <<"U4F11", "U820C", "6", "0", "\n", "k", "g">>

\* The characters the other texts are made of: a line break, a space, a digit
\* and the letters of a unit.
CleanAlphabet == {"\n", " ", "6", "k", "g"}

\* Texts with the characters of the replacement table: a misread word with a
\* space inside, and two misread characters around a fragmented number.
TableTexts ==
    { <<"U4F11", " ", "U820C", "\n">>,
      <<" ", "U5167", "U81DF", "\n", "\n", "6", "\n", "U33A1", " ">> }

CleanInputs ==
    {ScenarioText, FragmentText} \cup TableTexts
        \cup UNION {[1..n -> CleanAlphabet] : n \in 0..MaxTextLen}

\* preCleanOcr(cleanArg) returns.
PreCleanCall ==
    /\ cleaned = <<>>
    /\ cleaned' = <<preCleanOcr(cleanArg)>>
    /\ UNCHANGED <<cleanArg, ocrVars, capVars, srvVars, splitVars, textVars>>

\* preCleanOcr is called on the text the first call returned, and returns.
PreCleanAgain ==
    /\ Len(cleaned) = 1
    /\ cleaned' = Append(cleaned, preCleanOcr(cleaned[1]))
    /\ UNCHANGED <<cleanArg, ocrVars, capVars, srvVars, splitVars, textVars>>

InitClean ==
    /\ NoOcr
    /\ NoCapture
    /\ job = NoJob /\ captureStatus = <<>> /\ retention = "unset"
    /\ NoSplit
    /\ cleanArg \in CleanInputs
    /\ cleaned = <<>>
    /\ NoChunkText

NextClean ==
    \/ PreCleanCall
    \/ PreCleanAgain

SpecClean == InitClean /\ [][NextClean]_vars

(***************************************************************************)
(* ocrSingleImage on its own, from the backend's text to the returned      *)
(* text.                                                                   *)
(***************************************************************************)
\* What the backend's text is made of: phrases of the patterns, a word of
\* the page and a line break.
ResponseAlphabet ==
    {"<no-text-in-this-image>", "<text-wa>", "<arimasen>", "<tokuni>",
     "<nashi>", "word", "\n"}

ModelTexts == UNION {[1..n -> ResponseAlphabet] : n \in 0..MaxResponseLen}

\* The rest of ocrSingleImage once result.response.text() is there.
ChunkTextReturns ==
    /\ chunkText = <<>>
    /\ chunkText' = <<ChunkTextOf(modelText)>>
    /\ UNCHANGED <<modelText, ocrVars, capVars, srvVars, splitVars, cleanVars>>

InitText ==
    /\ NoOcr
    /\ NoCapture
    /\ job = NoJob /\ captureStatus = <<>> /\ retention = "unset"
    /\ NoSplit
    /\ NoClean
    /\ modelText \in ModelTexts
    /\ chunkText = <<>>

NextText == ChunkTextReturns

SpecText == InitText /\ [][NextText]_vars

(***************************************************************************)
(* Properties.                                                             *)
(***************************************************************************)
\* The units in flight: started and not settled, a backoff delay included.
InFlightCount == Cardinality({u \in Indices : InFlight(unit[u])})

\* The units whose task rejected, in order of time.
Failed == SelectSeq(settleLog, LAMBDA u : unit[u].pc = "thrown")

\* The message contains one of the four retryable signals.
HasRetryWord(m) ==
    \E w \in {"429", "503", "UNAVAILABLE", "overloaded"} : Includes(m, w)

\* The first k calls of fn all rejected with a retryable message.
AllRetryable(k) ==
    /\ k <= Len(rt.log)
    /\ \A j \in 1..k : ~rt.log[j].ok /\ HasRetryWord(rt.log[j].v)

\* C1: when every unit has succeeded, runWithConcurrencyLimit has resolved, and
\* when it resolves the array has one slot per unit and slot i holds the value
\* units[i] resolved with, whatever the order of completion and the limit.
C1_ResultsInIndexOrder ==
    /\ (\A i \in Indices : unit[i].pc = "returned") => pool.state = "fulfilled"
    /\ pool.state = "fulfilled" =>
          /\ Len(ResultArray(results)) = totalChunks
          /\ \A i \in Indices :
                /\ unit[i].pc = "returned"
                /\ ResultArray(results)[i + 1] = unit[i].value

\* C1's case: resolved with 1 < K < N, the units completed out of index order
\* and resolved with different values.
C1_Witness ==
    /\ pool.state = "fulfilled"
    /\ 1 < limit /\ limit < totalChunks
    /\ settleLog[1] # 0
    /\ \E i, j \in Indices : unit[i].value # unit[j].value

\* C2: at every instant of a performOcr call at most K = 3 chunk units are in
\* flight, a unit in its backoff delay counted, also after a unit has failed.
C2_AtMostThreeInFlight ==
    /\ limit = 3
    /\ InFlightCount <= limit

\* C2's case: more chunks than the limit, three in flight (one of them in its
\* backoff delay) and one still waiting for a worker.
C2_Witness ==
    /\ InFlightCount = 3
    /\ \E u \in Indices : unit[u].pc = "sleeping"
    /\ \E u \in Indices : unit[u].pc = "idle"

\* C3: once a unit has failed for good, runWithConcurrencyLimit is rejected
\* with the error of the unit that failed first in time, and every sibling
\* still in flight goes on: its timer can fire, its call can answer or fail.
C3_FirstFailurePropagates ==
    totalChunks > 1 =>
        /\ pool.state = "rejected" <=> Failed # <<>>
        /\ Failed # <<>> => pool.error = unit[Failed[1]].lastError
        /\ \A u \in Indices :
              /\ (pool.state = "rejected" /\ unit[u].pc = "sleeping")
                    => ENABLED ChunkTimer(u)
              /\ (pool.state = "rejected" /\ unit[u].pc = "calling")
                    => /\ \A r \in ChunkResponses(u) : ENABLED ChunkResponse(u, r)
                       /\ \A e \in BackendErrors : ENABLED ChunkError(u, e)

\* C3's case: two units failed with different errors, and a sibling is at its
\* last attempt after the rejection.
C3_Witness ==
    /\ pool.state = "rejected"
    /\ Len(Failed) >= 2
    /\ unit[Failed[1]].lastError # unit[Failed[2]].lastError
    /\ \E u \in Indices : unit[u].pc = "calling" /\ unit[u].i = maxRetries - 1

\* C4: with maxRetries >= 1, after maxRetries - 1 retryable failures and a
\* success withRetry has returned the success value; after maxRetries
\* retryable failures it has thrown the last error; and as long as fewer than
\* maxRetries calls have failed, all retryably, it has not given up.
C4_RetryBudget ==
    maxRetries >= 1 =>
        LET n == Len(rt.log) IN
        /\ (n = maxRetries /\ AllRetryable(n - 1) /\ rt.log[n].ok)
              => /\ rt.call.pc = "returned"
                 /\ rt.call.value = <<rt.log[n].v>>
        /\ (n = maxRetries /\ AllRetryable(n))
              => /\ rt.call.pc = "thrown"
                 /\ rt.call.lastError = rt.log[n].v
        /\ (1 <= n /\ n < maxRetries /\ AllRetryable(n)) => InFlight(rt.call)

\* C4's case: two or more retryable failures, then the success at the last
\* attempt the budget allows.
C4_Witness ==
    /\ maxRetries >= 3
    /\ Len(rt.log) = maxRetries
    /\ AllRetryable(maxRetries - 1)
    /\ rt.log[maxRetries].ok
    /\ rt.call.pc = "returned"

\* C5: fn is called at most maxRetries times; a failure whose message has one
\* of '429', '503', 'UNAVAILABLE', 'overloaded' is followed by a delay while
\* the budget lasts; any other failure is the last call: it is rethrown at
\* once, with no delay and no further attempt.
C5_RetryableSignals ==
    /\ rt.calls <= maxRetries
    /\ rt.calls = IF rt.call.pc = "calling" THEN Len(rt.log) + 1 ELSE Len(rt.log)
    /\ \A k \in 1..Len(rt.log) :
          ~rt.log[k].ok =>
              IF HasRetryWord(rt.log[k].v) /\ k < maxRetries
              THEN Len(rt.sleeps) >= k
              ELSE /\ k = Len(rt.log)
                   /\ rt.call.pc = "thrown"
                   /\ rt.call.lastError = rt.log[k].v
                   /\ Len(rt.sleeps) = k - 1

\* C5's case: a '429' failure was retried, and the next failure, which has none
\* of the four signals, was rethrown with budget left.
C5_Witness ==
    /\ Len(rt.log) = 2
    /\ maxRetries > 2
    /\ ~rt.log[1].ok /\ Includes(rt.log[1].v, "429")
    /\ ~rt.log[2].ok /\ ~HasRetryWord(rt.log[2].v)
    /\ rt.call.pc = "thrown"

\* C6: the k-th delay is delayMs x k and follows the k-th call, which failed
\* retryably with budget left; there are as many delays as calls while the
\* loop sleeps and one fewer otherwise: none before the first call, none after
\* the call that returned or was rethrown.
C6_LinearBackoff ==
    /\ \A k \in 1..Len(rt.sleeps) :
          /\ rt.sleeps[k] = delayMs * k
          /\ AllRetryable(k)
          /\ k < maxRetries
    /\ rt.call.pc = "sleeping" => Len(rt.sleeps) = rt.calls
    /\ (rt.call.pc # "sleeping" /\ rt.calls >= 1) => Len(rt.sleeps) = rt.calls - 1
    /\ rt.calls = 0 => rt.sleeps = <<>>

\* C6's case: three delays of the default base, 2000, 4000 and 6000 ms.
C6_Witness ==
    /\ delayMs = 2000
    /\ rt.sleeps = <<2000, 4000, 6000>>
    /\ rt.call.pc = "thrown"

\* C7, as claimed: the k-th onProgress call of a performOcr call has the
\* arguments (k, totalChunks).
C7_ProgressCountsSettledUnits ==
    \A k \in 1..Len(progressLog) : progressLog[k] = <<k, totalChunks>>

\* The text of chunk 0..k in index order with a blank line between the chunks.
RECURSIVE TextsInIndexOrder(_)
TextsInIndexOrder(k) ==
    IF k = 0 THEN unit[0].value[1]
    ELSE TextsInIndexOrder(k - 1) \o <<"\n", "\n">> \o unit[k].value[1]

\* C8: once extraction is over, the text handed to the cleanup stages is the
\* chunk texts in index order with "\n\n" between them, and preCleanOcr is
\* applied to it.
C8_JoinInIndexOrder ==
    statusLog # <<>> =>
        /\ combinedText = TextsInIndexOrder(totalChunks - 1)
        /\ preCleanedText = preCleanOcr(combinedText)

\* C8's case: three or more chunks with text, the first to complete not being
\* chunk 0 and the last to complete not being the last chunk.
C8_Witness ==
    /\ statusLog # <<>>
    /\ totalChunks >= 3
    /\ settleLog[1] # 0
    /\ settleLog[totalChunks] # totalChunks - 1
    /\ \A u \in Indices : unit[u].value[1] # <<>>

\* C9, as claimed: when every chunk's response matched a "no text" pattern the
\* joined text is the empty string.
C9_NoTextJoinsToEmpty ==
    (statusLog # <<>> /\ \A u \in Indices : unit[u].value = << <<>> >>)
        => combinedText = <<>>

\* C10: when the reflow call has failed for good, performOcr has resolved, and
\* with the rule-cleaned text as it was; no failure of the reflow stage rejects.
C10_ReflowFailureDegrades ==
    /\ reflow.pc = "thrown" =>
          /\ outcome.state = "resolved"
          /\ outcome.markdown = preCleanedText
          /\ preCleanedText = preCleanOcr(combinedText)
    /\ statusLog # <<>> => outcome.state # "rejected"

\* C10's case: the reflow call ran out of retries on a retryable error, and the
\* rule-cleaned text it falls back on differs from the joined text.
C10_Witness ==
    /\ reflow.pc = "thrown"
    /\ isRetryable(reflow.lastError)
    /\ outcome.state = "resolved"
    /\ outcome.markdown # <<>>
    /\ outcome.markdown # combinedText

(***************************************************************************)
(* The phases of one performOcr call.                                      *)
(***************************************************************************)
\* The phase changes a performOcr call can make.
PhaseSteps ==
    { <<"idle", "extracting">>, <<"idle", "done">>, <<"extracting", "cleaning">>,
      <<"extracting", "done">>, <<"cleaning", "done">> }

\* Every chunk task has returned its text.
ExtractionSucceeded == \A u \in Indices : unit[u].pc = "returned"

\* C11: the phases run extracting, cleaning, done.  onStatusChange('cleaning')
\* is called exactly once when extraction succeeds: in the step in which the
\* last chunk returns, after all totalChunks onProgress calls, with no
\* onProgress call after it, and the reflow request is not made before that
\* step.  It is never called when extraction fails.
C11_CleaningOnceAfterProgress ==
    [][ /\ phase' # phase => <<phase, phase'>> \in PhaseSteps
        /\ statusLog' # statusLog =>
              /\ statusLog = <<>> /\ statusLog' = <<"cleaning">>
              /\ Len(progressLog') = totalChunks
              /\ phase = "extracting" /\ phase' = "cleaning"
              /\ reflow.pc = "idle" /\ reflow'.pc = "calling"
        /\ statusLog # <<>> => progressLog' = progressLog
        /\ ExtractionSucceeded' <=> statusLog' = <<"cleaning">>
        /\ reflow'.pc # "idle" => statusLog' = <<"cleaning">>
        /\ Failed' # <<>> => statusLog' = <<>> /\ reflow'.pc = "idle"
      ]_vars

\* Extraction of several chunks succeeded, chunk 0 not returning first, the
\* status change was reported after the last progress call, and the reflow
\* request is out.
C11_Witness ==
    /\ totalChunks >= 2
    /\ statusLog = <<"cleaning">>
    /\ Len(progressLog) = totalChunks
    /\ settleLog[1] # 0
    /\ reflow.pc = "calling"
    /\ phase = "cleaning"

(***************************************************************************)
(* The job record at the end of OCR.                                       *)
(***************************************************************************)
\* C12: in the step in which a chunk's extraction fails for good while
\* performOcr is pending, performOcr rejects without any text and the job
\* record becomes 'completed', progress 100, ocrText '' and an error made of
\* performOcr's message.  In the step in which performOcr's work ends after
\* a successful extraction it resolves, with the reflowed text or, when the
\* reflow failed, with the pre-cleaned text, and the record becomes
\* 'completed', progress 100, with that text and no error field.
C12_OcrOutcomeRecorded ==
    [][ /\ (outcome.state = "pending" /\ Failed = <<>> /\ Failed' # <<>>) =>
              /\ outcome'.state = "rejected"
              /\ outcome'.markdown = <<>>
              /\ captureStatus' # <<>>
              /\ captureStatus'[1].status = "completed"
              /\ captureStatus'[1].progress = 100
              /\ captureStatus'[1].ocrText = << <<>> >>
              /\ captureStatus'[1].error # <<>>
              /\ captureStatus'[1].error[1] =
                     <<"<OCR-error>:">> \o outcome'.error
        /\ (phase = "cleaning" /\ phase' = "done") =>
              /\ ExtractionSucceeded
              /\ outcome'.state = "resolved"
              /\ outcome'.markdown =
                     IF reflow'.pc = "thrown" THEN preCleanedText
                     ELSE reflow'.value[1]
              /\ captureStatus' # <<>>
              /\ captureStatus'[1].status = "completed"
              /\ captureStatus'[1].progress = 100
              /\ captureStatus'[1].ocrText = <<outcome'.markdown>>
              /\ captureStatus'[1].error = <<>>
        /\ (outcome.state = "pending" /\ outcome'.state = "rejected") =>
              ~ExtractionSucceeded'
      ]_vars

\* A job of several chunks whose extraction failed after another chunk had
\* returned text: the record is 'completed' with an empty text and the error.
C12_Witness ==
    /\ job.pc = "done"
    /\ outcome.state = "rejected"
    /\ \E u \in Indices : unit[u].pc = "returned" /\ unit[u].value # << <<>> >>
    /\ captureStatus # <<>>
    /\ captureStatus[1].status = "completed"
    /\ captureStatus[1].ocrText = << <<>> >>
    /\ captureStatus[1].error # <<>>

\* C13: every record a capture request creates in the job-status map is
\* eventually deleted, whatever the outcome of the job.
C13_EveryJobRecordDeleted == (captureStatus # <<>>) ~> (captureStatus = <<>>)

(***************************************************************************)
(* The segmenter and the compositor.                                       *)
(***************************************************************************)
\* The least n with n * b >= a, for a >= 0 and b > 0.
CeilDiv(a, b) == CHOOSE n \in 0..a : n * b >= a /\ (n = 0 \/ (n - 1) * b < a)

\* The number of segments of the page.
SegmentCount == CeilDiv(geom.docHeight, geom.viewportHeight)

\* The capture loop is over.
AllCaptured == capturePc \in {"compositing", "returned"}

\* C14: for totalHeight >= 0 and viewportHeight > 0 the segments are captured
\* in index order, ceil(totalHeight / viewportHeight) of them; segment i is
\* taken at scroll offset i * viewportHeight, except the last, taken at
\* max(0, totalHeight - viewportHeight).
C14_SegmenterOffsets ==
    LET n == SegmentCount IN
    /\ Len(segments) <= n
    /\ AllCaptured => Len(segments) = n
    /\ \A k \in 1..Len(segments) :
          segments[k].scrollY =
              IF k = n THEN Max(0, geom.docHeight - geom.viewportHeight)
              ELSE (k - 1) * geom.viewportHeight

\* totalHeight 2500 and viewportHeight 800: the offsets 0, 800, 1600, 1700.
C14_Witness ==
    /\ geom = ScenarioGeometry
    /\ AllCaptured
    /\ [k \in 1..Len(segments) |-> segments[k].scrollY] = <<0, 800, 1600, 1700>>

\* The page rows segment k shows: viewportHeight rows from its scroll offset.
SegmentRows(k) ==
    segments[k].scrollY .. (segments[k].scrollY + geom.viewportHeight - 1)

\* C15: for totalHeight >= viewportHeight > 0, once all segments are captured
\* every page row of 0..totalHeight-1 lies in some segment, no segment reaches
\* beyond totalHeight, and two segments share rows only when they are the
\* last two, which share n * viewportHeight - totalHeight rows.
C15_CoverageAndOverlap ==
    (AllCaptured /\ geom.docHeight >= geom.viewportHeight) =>
        LET n == Len(segments) IN
        /\ \A r \in 0..(geom.docHeight - 1) : \E k \in 1..n : r \in SegmentRows(k)
        /\ \A k \in 1..n : \A r \in SegmentRows(k) : r < geom.docHeight
        /\ \A j \in 1..n : \A k \in (j + 1)..n :
              Cardinality(SegmentRows(j) \cap SegmentRows(k)) =
                  IF j = n - 1
                  THEN SegmentCount * geom.viewportHeight - geom.docHeight
                  ELSE 0

\* Three or more segments are captured of a page whose height is not a
\* multiple of the viewport's: the last two overlap.
C15_Witness ==
    /\ AllCaptured
    /\ Len(segments) >= 3
    /\ geom.docHeight % geom.viewportHeight # 0
    /\ SegmentRows(Len(segments)) \cap SegmentRows(Len(segments) - 1) # {}

\* C16: segment i is pasted at round(i * viewportHeight * scaleFactor), the
\* last one at round(totalHeight * scaleFactor) - round(viewportHeight *
\* scaleFactor), or at 0 if that is negative, and every paste offset is
\* scaleFactor times the scroll offset the segment was captured at.
C16_PasteOffsets ==
    AllCaptured =>
        LET n == Len(segments)
            s == geom.deviceScaleFactor
        IN  /\ Len(compositeInputs) = n
            /\ \A k \in 1..n :
                  /\ compositeInputs[k].top =
                         IF k = n
                         THEN Max(0, MathRound(geom.docHeight * s, 1)
                                     - MathRound(geom.viewportHeight * s, 1))
                         ELSE MathRound((k - 1) * geom.viewportHeight * s, 1)
                  /\ compositeInputs[k].top =
                         s * segments[compositeInputs[k].input + 1].scrollY

\* Several segments at a scale factor above 1, the last one pinned to the
\* bottom: it is not pasted where tiling would put it.
C16_Witness ==
    /\ AllCaptured
    /\ Len(segments) >= 2
    /\ geom.deviceScaleFactor > 1
    /\ compositeInputs[Len(segments)].top
           # (Len(segments) - 1) * geom.viewportHeight * geom.deviceScaleFactor

\* The rows of the returned image.
CanvasRows == CompositeRows(canvas[1].height, compositeInputs, segments)

\* C17: in the returned image every row shows a segment, never the white
\* background; the overlays are in capture order; and a row that several
\* segments cover shows the one captured last.
C17_EveryRowCovered ==
    capturePc = "returned" =>
        /\ \A k \in 1..Len(compositeInputs) : compositeInputs[k].input = k - 1
        /\ \A r \in 0..(canvas[1].height - 1) :
              LET c == { i \in 0..(Len(segments) - 1) :
                           /\ compositeInputs[i + 1].top <= r
                           /\ r < compositeInputs[i + 1].top
                                      + segments[i + 1].height }
              IN  /\ c # {}
                  /\ CanvasRows[r][1] \in c
                  /\ \A i \in c : i <= CanvasRows[r][1]

\* An image is returned in which some row is covered by two segments.
C17_Witness ==
    /\ capturePc = "returned"
    /\ \E r \in 0..(canvas[1].height - 1) :
          Cardinality(Covering(compositeInputs, segments, r)) = 2

\* C18: the returned image is round(totalHeight * scaleFactor) rows high,
\* which is totalHeight * scaleFactor as the scale factor is an integer, and
\* viewportWidth * scaleFactor pixels wide.
C18_CompositeSize ==
    capturePc = "returned" =>
        /\ canvas[1].height = MathRound(geom.docHeight * geom.deviceScaleFactor, 1)
        /\ canvas[1].height = geom.docHeight * geom.deviceScaleFactor
        /\ canvas[1].width = geom.viewportWidth * geom.deviceScaleFactor

\* An image is returned for a page whose height is not a multiple of the
\* viewport's, so that it is lower than the sum of its segments.
C18_Witness ==
    /\ capturePc = "returned"
    /\ geom.docHeight % geom.viewportHeight # 0
    /\ geom.docHeight > geom.viewportHeight
    /\ canvas[1].height < Len(segments) * segments[1].height

(***************************************************************************)
(* The chunker.                                                            *)
(***************************************************************************)
RECURSIVE SumHeights(_)
\* The sum of the heights of a sequence of images.
SumHeights(imgs) ==
    IF imgs = <<>> THEN 0 ELSE Head(imgs).height + SumHeights(Tail(imgs))

\* C19: for an image whose size is known and whose height H exceeds the
\* limit M, splitImage returns ceil(H / M) chunks from top to bottom; chunk i
\* is the rows i * M up to min(H, (i + 1) * M) of the image, so the chunks
\* are contiguous and disjoint, their heights sum to H, each height is in
\* 1..M, and only the last may be less than M.
C19_ChunkTiling ==
    (chunks.pc = "returned" /\ image.width > 0 /\ image.height > maxHeight) =>
        LET n == Len(chunks.out)
            H == image.height
            M == maxHeight
        IN  /\ n = CeilDiv(H, M)
            /\ \A k \in 1..n :
                  /\ chunks.out[k].top = image.top + (k - 1) * M
                  /\ chunks.out[k].top + chunks.out[k].height
                         = image.top + Min(H, k * M)
                  /\ chunks.out[k].height \in 1..M
                  /\ k < n => chunks.out[k].height = M
                  /\ k < n => chunks.out[k + 1].top
                                  = chunks.out[k].top + chunks.out[k].height
                  /\ chunks.out[k].width = image.width
            /\ SumHeights(chunks.out) = H

\* Height 9000 and limit 4000: the heights 4000, 4000, 1000.
C19_Witness ==
    /\ image = ScenarioImage
    /\ chunks.pc = "returned"
    /\ [k \in 1..Len(chunks.out) |-> chunks.out[k].height] = <<4000, 4000, 1000>>

\* C20: for an image whose height is at most the limit splitImage returns one
\* chunk, the input buffer itself; so it does when called on a chunk that an
\* earlier call returned for such an image.
C20_UnderLimitIdentity ==
    (chunks.pc = "returned" /\ image.height <= maxHeight) =>
        chunks.out = <<image>>

\* splitImage was called again on the one chunk it had returned for an image
\* within the limit, and returned that chunk.
C20_Witness ==
    /\ chunks.pc = "returned"
    /\ chunks.round = 1
    /\ image.gen = 0
    /\ image.width > 0
    /\ image.height \in 1..maxHeight
    /\ chunks.out = <<image>>

\* The size of the image is not available: sharp reports no width or no
\* height, or it could not read the buffer at all.
GeometryUnavailable ==
    image.width = 0 \/ image.height = 0 \/ chunks.at = "metadata"

\* C21: when the size of the image is not available, splitImage returns the
\* input as its only chunk and does not reject.
C21_FailOpen ==
    (chunks.pc \in {"returned", "thrown"} /\ GeometryUnavailable) =>
        (chunks.pc = "returned" /\ chunks.out = <<image>>)

\* The preCleanOcr call has returned: its value.
CleanReturned == cleaned # <<>>

\* C22, as stated: the rule-based cleanup of U4F11 U820C "\n60kg" yields the
\* single line U4F53 U91CD "60kg".
C22_MisreadAndBreakJoined ==
    (cleanArg = ScenarioText /\ CleanReturned) =>
        cleaned[1] = <<"U4F53", "U91CD", "6", "0", "k", "g">>

\* C22, amended: the cleanup of U4F11 U820C "\n60kg" fixes the misread word and
\* keeps the line break, since the break follows no number: the two lines
\* U4F53 U91CD and "60kg".  The break that is joined is the one between a number
\* and its unit: U4F11 U820C "60\nkg" yields the single line U4F53 U91CD "60kg".
C22_MisreadFixedNumberUnitJoined ==
    CleanReturned =>
        /\ cleanArg = ScenarioText =>
               cleaned[1] = <<"U4F53", "U91CD", "\n", "6", "0", "k", "g">>
        /\ cleanArg = FragmentText =>
               cleaned[1] = <<"U4F53", "U91CD", "6", "0", "k", "g">>

C22_Witness ==
    /\ cleanArg = ScenarioText
    /\ CleanReturned
    /\ Len(SplitLines(cleaned[1])) = 2

\* The lines of the text that preCleanOcr returned.
CleanedLines == SplitLines(cleaned[1])

\* s holds n line breaks in a row: n - 1 blank lines in a row.
HasNewlineRun(s, n) ==
    \E p \in 1..(Len(s) - n + 1) : \A q \in p..(p + n - 1) : s[q] = "\n"

\* C23: for every input text, the output of the rule-based cleanup holds no run
\* of 3 or more blank lines, and no line of it starts or ends with white space.
C23_NoBlankRunNoEdgeSpace ==
    CleanReturned =>
        /\ ~HasNewlineRun(cleaned[1], 4)
        /\ \A k \in 1..Len(CleanedLines) :
               CleanedLines[k] = Trim(CleanedLines[k])

\* The half of C23 that holds: no line of the output starts or ends with white
\* space.
C23_NoEdgeSpace ==
    CleanReturned =>
        \A k \in 1..Len(CleanedLines) : CleanedLines[k] = Trim(CleanedLines[k])

\* withRetry was called with its default maxRetries and delayMs, every call of
\* fn failed retryably, and withRetry has given up.
DefaultsExhausted ==
    /\ maxRetries = DefaultMaxRetries
    /\ delayMs = DefaultDelayMs
    /\ rt.call.pc = "thrown"
    /\ AllRetryable(Len(rt.log))

\* C24: with the default settings, a backend call that keeps failing with a
\* retryable error is retried 3 times, after delays of 2 s, 4 s and 6 s: four
\* calls of fn in all.
C24_ThreeRetriesDefault ==
    DefaultsExhausted =>
        /\ rt.calls = 1 + DefaultMaxRetries
        /\ rt.sleeps = <<2000, 4000, 6000>>

\* What the loop does with the defaults: three calls of fn, two retries, after
\* delays of 2 s and 4 s.
C24_TwoRetriesDefault ==
    DefaultsExhausted =>
        /\ rt.calls = DefaultMaxRetries
        /\ rt.sleeps = <<2000, 4000>>

\* performOcr has done nothing but settle: no unit and no reflow call started,
\* no worker created, no callback called, no text built.
NoOcrWork ==
    /\ \A u \in Indices : unit[u] = IdleCall
    /\ reflow = IdleCall
    /\ workers = <<>> /\ currentIndex = 0
    /\ progressLog = <<>> /\ statusLog = <<>> /\ settleLog = <<>>
    /\ combinedText = <<>> /\ preCleanedText = <<>>

\* C25: with GEMINI_API_KEY unset, a performOcr call rejects with the
\* missing-key message at once, never extracting and with no backend call and
\* no callback; and the server's task never calls performOcr: once past the
\* capture it records 'completed', progress 100, an empty ocrText and the
\* missing-key error, which stays until the retention timer deletes it.
C25_MissingKeyFailsFast ==
    ~apiKey =>
        /\ phase \in {"idle", "done"}
        /\ NoOcrWork
        /\ phase = "done" =>
               /\ outcome.state = "rejected"
               /\ outcome.error = <<"GEMINI_API_KEY", "<is-not-set>">>
        /\ job.pc # "none" => phase = "idle" /\ outcome = Pending
        /\ job.pc = "done" =>
               \/ retention = "fired" /\ captureStatus = <<>>
               \/ /\ retention = "armed"
                  /\ captureStatus # <<>>
                  /\ captureStatus[1].status = "completed"
                  /\ captureStatus[1].progress = 100
                  /\ captureStatus[1].ocrText = << <<>> >>
                  /\ captureStatus[1].error =
                         <<<<"GEMINI_API_KEY", "<is-not-configured>">>>>

\* C25's case: the capture of a job succeeded with no key set, and its record
\* has been written.
C25_Witness ==
    /\ ~apiKey
    /\ job.pc = "done"
    /\ canvas # <<>>
    /\ captureStatus # <<>>
    /\ phase = "idle"

\* C25's other case: performOcr, called on its own with no key set, has
\* rejected.
C25_DirectCallRejected ==
    /\ ~apiKey
    /\ job.pc = "none"
    /\ phase = "done"
    /\ outcome.state = "rejected"

\* The job's record says 'completed'.
Completed == captureStatus # <<>> /\ captureStatus[1].status = "completed"

\* C26: once a job's record is 'completed' (progress 100) it is never
\* overwritten: it stays as it is until the retention timer deletes it, also
\* when the OCR failed while sibling units were in flight or unclaimed.
C26_CompletedIsFinal ==
    [][Completed =>
          \/ captureStatus' = captureStatus
          \/ captureStatus' = <<>> /\ retention = "armed" /\ retention' = "fired"]_vars

\* The part of C26 that holds: a record 'completed' after an OCR that resolved,
\* or that was skipped for want of a key, is final.
C26_CompletedIsFinalUnlessFailed ==
    [][(Completed /\ outcome.state # "rejected") =>
          \/ captureStatus' = captureStatus
          \/ captureStatus' = <<>> /\ retention = "armed" /\ retention' = "fired"]_vars

\* performOcr has resolved or rejected.
Settled == outcome.state # "pending"

\* In this step the request of unit u, or of the reflow call, is sent.
RequestSent ==
    \/ \E u \in Indices : unit[u].pc # "calling" /\ unit'[u].pc = "calling"
    \/ reflow.pc # "calling" /\ reflow'.pc = "calling"

\* C27: after performOcr has settled, no unit that had not been started is
\* started, no backend request is sent, and onProgress is not called.
C27_QuietAfterSettled ==
    [][Settled =>
          /\ \A u \in Indices : unit[u].pc = "idle" => unit'[u].pc = "idle"
          /\ ~RequestSent
          /\ progressLog' = progressLog]_vars

\* The part of C27 that holds: after performOcr has resolved, nothing of it
\* runs any more.
C27_QuietAfterResolved ==
    [][outcome.state = "resolved" =>
          /\ UNCHANGED <<unit, reflow, currentIndex, results, workers>>
          /\ UNCHANGED <<progressLog, statusLog>>]_vars

\* C28: as long as a job's record is not 'error', each write to it has a
\* progress in 0..100 that is not below the progress it replaces, whatever the
\* order in which the chunks complete.
C28_ProgressNeverDecreases ==
    [][(captureStatus # <<>> /\ captureStatus' # <<>>
          /\ captureStatus'[1].status # "error") =>
          /\ captureStatus'[1].progress \in 0..100
          /\ captureStatus'[1].progress >= captureStatus[1].progress]_vars

\* The part of C28 that holds: every progress written is in 0..100, and up to
\* the start of the OCR no write lowers it.
C28_ProgressInRangeRisingToOcr ==
    [][(captureStatus # <<>> /\ captureStatus' # <<>>
          /\ captureStatus'[1].status # "error") =>
          /\ captureStatus'[1].progress \in 0..100
          /\ job'.pc \notin {"ocr", "done"} =>
                 captureStatus'[1].progress >= captureStatus[1].progress]_vars

\* runWithConcurrencyLimit has been called.
PoolCalled == pool.state # "none"

\* The workers that await a task.
Awaiting == {w \in DOMAIN workers : workers[w].state = "awaiting"}

\* In this step unit u is started.
StartedNow(u) == unit[u].pc = "idle" /\ unit'[u].pc # "idle"

\* C29, the states: min(K, N) workers; a worker awaits the unit it claimed
\* until that unit has settled, and no two workers hold the same index; the
\* units started are those below the shared counter; when the call is
\* fulfilled every unit has returned and its slot holds its value.
C29_WorkerStates ==
    PoolCalled =>
        /\ Cardinality(DOMAIN workers) = Min(limit, totalChunks)
        /\ \A w \in Awaiting :
              /\ workers[w].index \in Indices
              /\ InFlight(unit[workers[w].index])
              /\ \A x \in Awaiting : x # w => workers[x].index # workers[w].index
        /\ \A u \in Indices : InFlight(unit[u]) =>
              \E w \in Awaiting : workers[w].index = u
        /\ currentIndex <= totalChunks
        /\ \A u \in Indices : unit[u].pc # "idle" <=> u < currentIndex
        /\ pool.state = "fulfilled" =>
              \A u \in Indices :
                  unit[u].pc = "returned" /\ results[u] = unit[u].value

\* C29, the steps: a unit is started when its index is taken from the counter,
\* in increasing order and never a second time; a worker takes an index only
\* in the step in which its unit settled (or at the call); a slot is written
\* when its unit returns and never again.
C29_WorkerSteps ==
    pool'.state # "none" =>
        /\ currentIndex' >= currentIndex
        /\ \A u \in Indices :
              /\ StartedNow(u) <=> (currentIndex <= u /\ u < currentIndex')
              /\ unit[u].pc # "idle" => unit'[u].pc # "idle"
              /\ unit[u].pc \in {"returned", "thrown"} => unit'[u] = unit[u]
              /\ results[u] # <<>> => results'[u] = results[u]
              /\ (results[u] = <<>> /\ results'[u] # <<>>) =>
                     InFlight(unit[u]) /\ unit'[u].pc = "returned"
        /\ PoolCalled =>
              /\ currentIndex' <= currentIndex + 1
              /\ currentIndex' = currentIndex + 1 =>
                     \E w \in Awaiting :
                         /\ ~InFlight(unit'[workers[w].index])
                         /\ workers'[w] =
                                [state |-> "awaiting", index |-> currentIndex]

\* C29: exactly min(K, N) workers run; each claims the next unclaimed index
\* from the shared counter and runs that unit to completion before claiming
\* another; units are started in increasing index order, no index is claimed
\* by two workers, and when no unit fails every index is started exactly once
\* and its result slot is written exactly once.
C29_WorkerPool == []C29_WorkerStates /\ [][C29_WorkerSteps]_vars

\* C29's case: more units than workers, no failure, every unit returned, and
\* the units did not settle in index order.
C29_Witness ==
    /\ pool.state = "fulfilled"
    /\ limit >= 2
    /\ totalChunks > limit
    /\ \E k \in 1..(Len(settleLog) - 1) : settleLog[k] > settleLog[k + 1]

\* In this step an awaited operation of the capture stages rejects: launch,
\* context, navigation, the waits and scripts, a screenshot, the composite,
\* the upload or a close.
StageFailure ==
    \/ \E e \in CaptureErrors : StageFails(e)
    \/ job.pc = "capturing" /\ \E e \in CaptureErrors : CaptureThrows(e)

\* The record of a failed job: 'error', progress 0 and the message, nothing
\* else.
ErrorRecord(r) ==
    /\ r.status = "error"
    /\ r.progress = 0
    /\ r.error # <<>> /\ r.error[1] \in CaptureErrors
    /\ r.ocrText = <<>> /\ r.ocrChunks = <<>>

\* C30, the states: after a capture stage failed the record is 'error' with
\* progress 0 and the message, the browser is not open, and performOcr was
\* never called.
C30_FailedJob ==
    job.pc = "failed" =>
        /\ captureStatus # <<>> /\ ErrorRecord(captureStatus[1])
        /\ job.browser # "open"
        /\ phase = "idle" /\ outcome = Pending /\ NoOcrWork

\* C30, the steps: a failing stage ends the task at once, closing the browser
\* if it was open; and the task does nothing after it: no stage is run again
\* and no OCR starts.
C30_FailureSteps ==
    /\ StageFailure =>
          /\ job'.pc = "failed"
          /\ job'.browser = IF job.browser = "open" THEN "closed" ELSE job.browser
          /\ ErrorRecord(captureStatus'[1])
    /\ job.pc # "failed"

\* C30: if a capture-stage operation fails or times out, the stage is not
\* retried, the record becomes 'error' with progress 0 and the message, the
\* browser is closed if it was open, and OCR is never started for the job.
C30_CaptureFailureIsFatal == []C30_FailedJob /\ [][C30_FailureSteps]_vars

\* C30's case: a screenshot failed after at least one segment was captured,
\* with the browser open.
C30_Witness ==
    /\ job.pc = "failed"
    /\ job.browser = "closed"
    /\ capturePc = "thrown"
    /\ segments # <<>>
    /\ captureStatus # <<>> /\ captureStatus[1].status = "error"

\* The whole of text is one of the "no text" answers: each pattern of
\* noTextPatterns matched from the first to the last character.
ExactNoText(text) ==
    \/ text = <<"<no-text-in-this-image>">>
    \/ /\ Len(text) >= 2
       /\ text[1] = "<text-wa>" /\ text[Len(text)] = "<arimasen>"
       /\ \A r \in 2..(Len(text) - 1) : text[r] \notin LineTerminators
    \/ text = <<"<text-does-not-exist>">>
    \/ text = <<"<cannot-extract-text>">>
    \/ text = <<"<gazou-ni>", "<text-wa>", "<mitsukarimasen>">>
    \/ text = <<"<tokuni>", "<arimasen>">>
    \/ text = <<"<nashi>">>

\* C31: a chunk's text becomes the empty string only when the trimmed text is
\* exactly one of the "no text" answers; a text that holds such a phrase next
\* to other content is returned as it is.
C31_OnlyExactPhraseEmptied ==
    chunkText # <<>> =>
        chunkText[1] = IF ExactNoText(Trim(modelText)) THEN <<>>
                       ELSE Trim(modelText)

\* The part of C31 that holds: the returned text is the trimmed text or the
\* empty string, and an exact "no text" answer is emptied.
C31_ExactPhraseEmptied ==
    chunkText # <<>> =>
        /\ chunkText[1] \in {<<>>, Trim(modelText)}
        /\ ExactNoText(Trim(modelText)) => chunkText[1] = <<>>

\* The characters of s that are not white space, in order.
NonWhiteSpace(s) == SelectSeq(s, LAMBDA c : c \notin WhiteSpace)

\* The misrecognition table of preCleanOcr, applied to text: its first three
\* replacements.
ReplacementTable(text) ==
    ReplaceAll(
        ReplaceAllAlt(
            ReplaceAll(text, <<"U4F11", "U820C">>, <<"U4F53", "U91CD">>),
            << <<"U5167", "U81DF">>, <<"U5185", "U81DF">> >>,
            <<"U5185", "U81D3">>),
        <<"U33A1">>, <<"U33A0">>)

\* C32: the rule-based cleanup keeps the order and deletes no content: the
\* characters of the output that are not white space are those of the input
\* after the misrecognition replacements, in the same order.
C32_ContentPreserved ==
    CleanReturned =>
        NonWhiteSpace(cleaned[1]) = NonWhiteSpace(ReplacementTable(cleanArg))

\* C32's case: a text with misread characters and a fragmented quantity, whose
\* line break before the unit was removed.
C32_Witness ==
    /\ CleanReturned
    /\ \E p \in 1..Len(cleanArg) : cleanArg[p] = "U33A1"
    /\ \E p \in 1..(Len(cleaned[1]) - 1) :
           cleaned[1][p] = "6" /\ cleaned[1][p + 1] = "U33A0"

\* compositeInputs is built: sharp's composite is awaited, or has resolved.
InputsBuilt == capturePc \in {"compositing", "returned"}

\* Overlay k lies wholly inside the canvas sharp creates.
InsideCanvas(k) ==
    /\ compositeInputs[k].top >= 0
    /\ compositeInputs[k].top + segments[compositeInputs[k].input + 1].height
           <= CanvasHeight

\* C33: for every page geometry, a page shorter than the viewport included,
\* each segment is pasted wholly inside the canvas: its top is >= 0 and its
\* top + viewportHeight x scaleFactor is <= the canvas height.
C33_SegmentsInsideCanvas ==
    InputsBuilt => \A k \in 1..Len(compositeInputs) : InsideCanvas(k)

\* The part of C33 that holds: no top is negative, and for a page at least as
\* high as the viewport every segment lies inside the canvas.
C33_InsideCanvasFromOneViewport ==
    InputsBuilt =>
        \A k \in 1..Len(compositeInputs) :
            /\ compositeInputs[k].top >= 0
            /\ totalHeight >= viewportHeight => InsideCanvas(k)

\* C34: the rule-based cleanup is idempotent: preCleanOcr of a text that
\* preCleanOcr returned is that text.
C34_CleanupIdempotent ==
    Len(cleaned) = 2 => cleaned[2] = cleaned[1]

\* A third call changes nothing: what the second call returned is a fixed
\* point of preCleanOcr.
C34_StableAfterTwoCalls ==
    Len(cleaned) = 2 => preCleanOcr(cleaned[2]) = cleaned[2]

\* Every worker of runWithConcurrencyLimit has left its loop.
WorkersEnded == \A w \in DOMAIN workers : workers[w].state # "awaiting"

\* C35, the bounds: a withRetry loop is never at an attempt past maxRetries,
\* and the shared counter never exceeds the number of units.
C35_Bounded ==
    /\ \A u \in Indices : unit[u].i < maxRetries
    /\ reflow.i < maxRetries
    /\ currentIndex <= totalChunks

\* C35: provided every backend call returns or throws, every performOcr call
\* settles, resolved or rejected; every retry loop ends within maxRetries
\* attempts, every worker loop ends, and the shared counter never exceeds the
\* number of units.
C35_PerformOcrSettles ==
    /\ []C35_Bounded
    /\ (phase # "idle") ~> Settled
    /\ (phase # "idle") ~> (WorkersEnded /\ NoCallInFlight)

\* C35's case: performOcr has rejected while a sibling unit was at its last
\* attempt, and now every worker has ended.
C35_Witness ==
    /\ outcome.state = "rejected"
    /\ WorkersEnded /\ NoCallInFlight
    /\ totalChunks > limit
    /\ \E u \in Indices : settleLog # <<>> /\ settleLog[Len(settleLog)] = u
                          /\ settleLog[1] # u /\ unit[settleLog[1]].pc = "thrown"

=============================================================================
